---- MODULE Spec2Model ----
(***************************************************************************)
(* State-machine model of the MPEG-TS muxer libavformat/mpegtsenc.c (the   *)
(* ISDB-Tb fork with NIT/TOT/EIT tables and transmission profiles).        *)
(*                                                                         *)
(* The muxer is single threaded: every public entry point (init,           *)
(* write_packet, write_packet(NULL), write_trailer) runs to completion, so *)
(* each is one action.  The C functions are operators over a bundle        *)
(*   m = [ts, sv, st, sink, pos, polls, pes]                               *)
(* of the MpegTSWrite context, the services, the write streams, the bytes  *)
(* handed to avio_write (as a list of 188-byte packets, each described by  *)
(* the fields the code computes for it), avio_tell(), a log of the calls   *)
(* of retransmit_si_info and a log of the calls of mpegts_write_pes.       *)
(*                                                                         *)
(* Packets are written without upstream programs (s->nb_programs = 0),     *)
(* the path that every scenario of the specification uses.  A muxer with   *)
(* upstream programs is initialised only: writing its first PMT reads      *)
(* through service->program, which mpegts_init leaves NULL.                *)
(***************************************************************************)
EXTENDS Integers, Sequences, FiniteSets, TLC

(***************************************************************************)
(* Program constants.                                                      *)
(***************************************************************************)
TS_PACKET_SIZE == 188
SECTION_LENGTH == 1020
PCR_TIME_BASE == 27000000
AV_TIME_BASE == 1000000
INT_MAX == 2147483647
\* AV_NOPTS_VALUE is INT64_MIN in the source; the model only compares against
\* it, so any value no timestamp of the model takes stands for it.
AV_NOPTS_VALUE == -2147483647

PAT_PID == 0
NIT_PID == 16
SDT_PID == 17
EIT_PID == 18
TOT_PID == 20
NULL_PID == 8191

PAT_TID == 0
PMT_TID == 2
NIT_TID == 64
SDT_TID == 66
EIT_TID == 78
TOT_TID == 115

SDT_RETRANS_TIME == 500
NIT_RETRANS_TIME == 50
TOT_RETRANS_TIME == 100
PAT_RETRANS_TIME == 100
PCR_RETRANS_TIME == 20
EIT_RETRANS_TIME == 500

MPEGTS_FLAG_REEMIT_PAT_PMT == 1
MPEGTS_FLAG_AAC_LATM == 2
MPEGTS_FLAG_PAT_PMT_AT_FRAMES == 4
MPEGTS_FLAG_SYSTEM_B == 8

MPEGTS_SERVICE_TYPE_DIGITAL_TV == 1
MPEGTS_SERVICE_TYPE_ONE_SEG == 192

AVERROR_INVALIDDATA == -1094995529
AVERROR_PATCHWELCOME == -1163346256
AVERROR_EINVAL == -22
AVERROR_ENOMEM == -12

(***************************************************************************)
(* Integer helpers: C operators on non-negative ints.                      *)
(***************************************************************************)
Min(a, b) == IF a < b THEN a ELSE b
Max(a, b) == IF a > b THEN a ELSE b

RECURSIVE BitAnd(_, _)
BitAnd(a, b) ==
    IF a = 0 \/ b = 0 THEN 0
    ELSE (a % 2) * (b % 2) + 2 * BitAnd(a \div 2, b \div 2)

RECURSIVE BitOr(_, _)
BitOr(a, b) ==
    IF a = 0 THEN b
    ELSE IF b = 0 THEN a
    ELSE Max(a % 2, b % 2) + 2 * BitOr(a \div 2, b \div 2)

RECURSIVE Shl(_, _)
Shl(a, n) == IF n = 0 THEN a ELSE Shl(2 * a, n - 1)

RECURSIVE Shr(_, _)
Shr(a, n) == IF n = 0 THEN a ELSE Shr(a \div 2, n - 1)

RECURSIVE GCD(_, _)
GCD(a, b) == IF b = 0 THEN a ELSE GCD(b, a % b)

\* av_rescale(a, b, c) = (a * b + c/2) / c for a >= 0.  b/c is reduced first
\* so that the product stays within TLC's integers; the quotient is the
\* same.
av_rescale(a, b, c) ==
    LET g == GCD(b, c)
    IN (a * (b \div g) + (c \div g) \div 2) \div (c \div g)

RECURSIVE SeqSum(_)
SeqSum(s) == IF s = <<>> THEN 0 ELSE Head(s) + SeqSum(Tail(s))


(***************************************************************************)
(* The byte sink.  A packet is the record of what its writer put in the    *)
(* 188 bytes: b0..b3 are the four header bytes as written; af_len and      *)
(* af_flags are bytes 4 and 5 when an adaptation field is present; pcr is  *)
(* what write_pcr_bits encoded; stuff counts the 0xFF bytes in the         *)
(* adaptation field; ptr is the pointer_field byte of a section's first    *)
(* packet; hdr counts PES header bytes, len the payload (section or PES    *)
(* data) bytes copied from offset off to position dpos, pad the trailing   *)
(* 0xFF bytes after the data.  k, src, pes, poll and tbl are bookkeeping   *)
(* of the model: which writer produced the packet, for which section or    *)
(* stream, in which mpegts_write_pes call, after which call of             *)
(* retransmit_si_info, and the fields of the section or PES header that    *)
(* starts in the packet.                                                   *)
(***************************************************************************)
BasePkt ==
    [k |-> "null", b0 |-> 0, b1 |-> 0, b2 |-> 0, b3 |-> 0,
     af_len |-> 0, af_flags |-> 0, pcr |-> -1, stuff |-> 0,
     ptr |-> 0, hdr |-> 0, off |-> 0, len |-> 0, dpos |-> 0, pad |-> 0,
     tbl |-> <<>>, src |-> 0, pes |-> 0, poll |-> 0, m2ts |-> -1]

\* What a demultiplexer reads from the four header bytes.
PktPid(p) == (p.b1 % 32) * 256 + p.b2
PktPusi(p) == (p.b1 \div 64) % 2
PktAfc(p) == (p.b3 \div 16) % 4
PktCC(p) == p.b3 % 16
PktHasAF(p) == PktAfc(p) \in {2, 3}
PktHasPayload(p) == PktAfc(p) \in {1, 3}
\* Size of the adaptation field, its length byte included.
PktAFSize(p) == IF PktHasAF(p) THEN 1 + p.af_len ELSE 0
PktBytes(p) == 4 + PktAFSize(p) + p.ptr + p.hdr + p.len + p.pad

get_pcr(m) ==
    av_rescale(m.pos + 11, 8 * PCR_TIME_BASE, m.ts.mux_rate) + m.ts.first_pcr

\* The TP_extra_header value, or -1 outside m2ts mode.
mpegts_prefix_m2ts_header(m) ==
    IF m.ts.m2ts_mode # 0 THEN get_pcr(m) % 1073741823 ELSE -1

\* mpegts_prefix_m2ts_header followed by avio_write of one packet.
section_write_packet(m, pkt) ==
    LET x == mpegts_prefix_m2ts_header(m)
    IN [m EXCEPT !.sink = Append(@, [pkt EXCEPT !.m2ts = x,
                                                !.poll = Len(m.polls),
                                                !.pes = Len(m.pes)]),
                 !.pos = @ + TS_PACKET_SIZE + (IF x >= 0 THEN 4 ELSE 0)]

(***************************************************************************)
(* Section writer.  A section context is named by a key: the five fixed    *)
(* tables live in the mux context, a PMT in its service.                   *)
(***************************************************************************)
SecKey(t, i) == [t |-> t, i |-> i]
SecOf(m, key) == IF key.t = "pmt" THEN m.sv[key.i].pmt ELSE m.ts[key.t]
SecSetCC(m, key, cc) ==
    IF key.t = "pmt" THEN [m EXCEPT !.sv[key.i].pmt.cc = cc]
    ELSE [m EXCEPT !.ts[key.t].cc = cc]

\* The loop of mpegts_write_section: buf_ptr - buf = off bytes are sent, len
\* remain.  tbl describes the section and travels with its first packet.
RECURSIVE mpegts_write_section_loop(_, _, _, _, _)
mpegts_write_section_loop(m, key, off, len, tbl) ==
    IF len <= 0 THEN m
    ELSE
      LET s == SecOf(m, key)
          first == off = 0
          b == Shr(s.pid, 8) + (IF first THEN 64 ELSE 0)
          cc == (s.cc + 1) % 16
          q == IF first THEN 5 ELSE 4
          len1 == Min(TS_PACKET_SIZE - q, len)
          left == TS_PACKET_SIZE - (q + len1)
          pkt == [BasePkt EXCEPT !.k = "sec", !.b0 = 71, !.b1 = b,
                     !.b2 = s.pid % 256, !.b3 = 16 + cc,
                     !.ptr = IF first THEN 1 ELSE 0,
                     !.off = off, !.len = len1, !.dpos = q,
                     !.pad = IF left > 0 THEN left ELSE 0,
                     !.tbl = IF first THEN tbl ELSE <<>>, !.src = key]
          m1 == section_write_packet(SecSetCC(m, key, cc), pkt)
      IN mpegts_write_section_loop(m1, key, off + len1, len - len1, tbl)

\* buf holds len bytes, the last four for the CRC.
mpegts_write_section(m, key, len, tbl) ==
    mpegts_write_section_loop(m, key, 0, len, tbl)

\* A variant of mpegts_write_section1 whose length field leaves out the CRC.
mpegts_write_section1_CrcNotCounted(m, key, tid, id, version, payload) ==
    LET flags == IF tid = SDT_TID THEN 61440 ELSE 45056
        tot_len == 3 + 5 + payload.len + 4
        word == BitOr(flags, payload.len + 5) % 65536
        tbl == [tid |-> tid, id |-> id, version |-> version,
                section_length |-> word % 4096, flags |-> word - (word % 4096),
                long |-> TRUE, body |-> payload]
    IN IF tot_len > SECTION_LENGTH THEN m
       ELSE mpegts_write_section(m, key, tot_len, tbl)

\* payload is [len, ...]: the table body of len bytes and what it lists.
\* The section is [tid, id, section_length as written in the 12-bit field,
\* the flag bits above it, the body].
mpegts_write_section1(m, key, tid, id, version, payload) ==
    LET flags == IF tid = SDT_TID THEN 61440 ELSE 45056
        tot_len == 3 + 5 + payload.len + 4
        word == BitOr(flags, payload.len + 5 + 4) % 65536
        tbl == [tid |-> tid, id |-> id, version |-> version,
                section_length |-> word % 4096, flags |-> word - (word % 4096),
                long |-> TRUE, body |-> payload]
    IN IF tot_len > SECTION_LENGTH THEN m
       ELSE mpegts_write_section(m, key, tot_len, tbl)


(***************************************************************************)
(* Table builders.  Each returns its body as [len |-> q - data, ...] with  *)
(* the entries a demultiplexer would read from it.                         *)
(***************************************************************************)
DEFAULT_PROVIDER_NAME == "FFmpeg"
DEFAULT_SERVICE_NAME == "Service01"
DEFAULT_NETWORK_NAME == "LaPSI TV - UFRGS"

\* The two bytes put16 stores.
put16(val) == val % 65536
\* putstr8: a length byte and the string.
putstr8(str) == 1 + Len(str)

mpegts_write_pat(m) ==
    LET entry(i) == [sid |-> put16(m.sv[i].sid),
                     pmt_pid |-> put16(BitOr(57344, m.sv[i].pmt.pid)) % 8192]
        payload == [len |-> 4 * m.ts.nb_services,
                    entries |-> [i \in 1..m.ts.nb_services |-> entry(i)]]
    IN mpegts_write_section1(m, SecKey("pat", 0), PAT_TID, m.ts.tsid,
                             m.ts.tables_version, payload)

CodecType(codec_id) ==
    CASE codec_id \in {"mpeg1video", "mpeg2video", "mpeg4", "h264", "hevc",
                       "cavs", "dirac", "vc1"} -> "video"
      [] codec_id \in {"mp2", "mp3", "aac", "aac_latm", "ac3", "eac3", "dts",
                       "truehd", "opus", "s302m"} -> "audio"
      [] codec_id \in {"dvb_subtitle", "dvb_teletext"} -> "subtitle"
      [] OTHER -> "data"

\* The switch on codec_id of mpegts_write_pmt.
StreamType(codec_id, flags) ==
    CASE codec_id \in {"mpeg1video", "mpeg2video"} -> 2
      [] codec_id = "mpeg4" -> 16
      [] codec_id = "h264" -> 27
      [] codec_id = "hevc" -> 36
      [] codec_id = "cavs" -> 66
      [] codec_id = "dirac" -> 209
      [] codec_id = "vc1" -> 234
      [] codec_id \in {"mp2", "mp3"} -> 3
      [] codec_id = "aac" ->
            IF BitAnd(flags, MPEGTS_FLAG_AAC_LATM) # 0 THEN 17 ELSE 15
      [] codec_id = "aac_latm" -> 17
      [] codec_id = "ac3" ->
            IF BitAnd(flags, MPEGTS_FLAG_SYSTEM_B) # 0 THEN 6 ELSE 129
      [] codec_id = "eac3" ->
            IF BitAnd(flags, MPEGTS_FLAG_SYSTEM_B) # 0 THEN 6 ELSE 135
      [] codec_id = "dts" -> 138
      [] codec_id = "truehd" -> 131
      [] OTHER -> 6

\* The entries of `size` bytes a descriptor loop writes from offset q: one
\* per language code, at most n, as long as q does not pass `limit`.
RECURSIVE LanguageEntries(_, _, _, _)
LanguageEntries(n, q, size, limit) ==
    IF n = 0 \/ q > limit THEN 0
    ELSE 1 + LanguageEntries(n - 1, q + size, size, limit)

\* The ISO 639 language descriptor of an audio stream at offset q: four
\* bytes per code of the language metadata, while q - data <= SECTION_LENGTH
\* - 4 and the length is below 252; nothing when no code is written.
Iso639Descriptor(st, q) ==
    LET n == LanguageEntries(Min(st.languages, 63), q + 2, 4, SECTION_LENGTH - 4)
    IN IF n = 0 THEN 0 ELSE 2 + 4 * n

\* Bytes of the optional descriptors of one stream, written at offset q of
\* the PMT body.  st.languages is the number of three-letter codes in the
\* stream's language metadata (a subtitle stream without metadata has the
\* one code "und"); the subtitle pages come from no extradata.
PmtDescriptors(st, flags, q) ==
    CASE st.codec_type = "audio" ->
            LET codec ==
                  (IF st.codec_id \in {"ac3", "eac3"}
                      /\ BitAnd(flags, MPEGTS_FLAG_SYSTEM_B) # 0 THEN 3 ELSE 0)
                  + (IF st.codec_id = "s302m" THEN 6 ELSE 0)
                  + (IF st.codec_id = "opus" /\ ~(q > SECTION_LENGTH - 6 - 4)
                     THEN 10 ELSE 0)
            IN codec + (IF st.codec_id = "opus" /\ q > SECTION_LENGTH - 6 - 4
                        THEN 0 ELSE Iso639Descriptor(st, q + codec))
      [] st.codec_type = "subtitle" ->
            (IF st.codec_id = "dvb_subtitle"
             THEN 2 + 8 * LanguageEntries(Max(st.languages, 1), q + 2, 8,
                                          SECTION_LENGTH - 8)
             ELSE IF st.codec_id = "dvb_teletext"
             THEN 2 + 5 * LanguageEntries(Max(st.languages, 1), q + 2, 5,
                                          SECTION_LENGTH - 6 - 1)
             ELSE 0)
      [] st.codec_type = "video" ->
            (IF st.codec_id \in {"dirac", "vc1"} THEN 6 ELSE 0)
      [] OTHER -> (IF st.codec_id = "smpte_klv" THEN 6 ELSE 0)

\* The loop over the streams of mpegts_write_pmt for service k: q bytes of
\* body are written and es lists the elementary streams so far.
RECURSIVE mpegts_write_pmt_loop(_, _, _, _, _)
mpegts_write_pmt_loop(m, k, i, q, es) ==
    IF i > Len(m.st) THEN [len |-> q, es |-> es, err |-> 0]
    ELSE IF q > SECTION_LENGTH - 32 THEN [len |-> q, es |-> es, err |-> 1]
    ELSE IF m.sv[m.st[i].service].sid = m.sv[k].sid THEN
      LET st == m.st[i]
          q1 == q + 1 + 2 + 2
          q2 == q1 + PmtDescriptors(st, m.ts.flags, q1)
          e == [stream_type |-> StreamType(st.codec_id, m.ts.flags),
                pid |-> put16(BitOr(57344, st.pid)) % 8192,
                es_info_length |-> q2 - q1, stream |-> i]
      IN mpegts_write_pmt_loop(m, k, i + 1, q2, Append(es, e))
    ELSE mpegts_write_pmt_loop(m, k, i + 1, q, es)

mpegts_write_pmt(m, k) ==
    LET \* pcr_pid, program_info_length, parental rating descriptor
        q0 == 2 + 2 + 6
        r == mpegts_write_pmt_loop(m, k, 1, q0, <<>>)
        payload == [len |-> r.len,
                    pcr_pid |-> put16(BitOr(57344, m.sv[k].pcr_pid)) % 8192,
                    es |-> r.es, err |-> r.err]
    IN mpegts_write_section1(m, SecKey("pmt", k), PMT_TID, m.sv[k].sid,
                             m.ts.tables_version, payload)

\* (sid & 0x18 >> 3): >> binds tighter than &.
OneSegTest(sid) == BitAnd(sid, Shr(24, 3)) # 0
\* ((sid & 0x18) >> 3) == 0x3
PartialReceptionTest(sid) == Shr(BitAnd(sid, 24), 3) = 3

mpegts_write_sdt(m) ==
    LET entry(i) ==
            [sid |-> put16(m.sv[i].sid),
             service_type |-> IF OneSegTest(m.sv[i].sid)
                              THEN MPEGTS_SERVICE_TYPE_ONE_SEG
                              ELSE MPEGTS_SERVICE_TYPE_DIGITAL_TV,
             len |-> 2 + 1 + 2 + 1 + 1 + 1 + putstr8(m.sv[i].provider_name)
                     + putstr8(m.sv[i].name)]
        entries == [i \in 1..m.ts.nb_services |-> entry(i)]
        payload == [len |-> 2 + 1 + SeqSum([i \in 1..m.ts.nb_services |->
                                              entries[i].len]),
                    entries |-> entries]
    IN mpegts_write_section1(m, SecKey("sdt", 0), SDT_TID, m.ts.tsid,
                             m.ts.tables_version, payload)

mpegts_write_nit(m) ==
    LET n == m.ts.nb_services
        network == 2 + (1 + putstr8(DEFAULT_NETWORK_NAME)) + (1 + 1 + 2)
        ts_info == 1 + 1 + 1 + 1 + Len(DEFAULT_NETWORK_NAME) + 4 * n
        service_list == 1 + 1 + 3 * n
        partial == {i \in 1..n : PartialReceptionTest(m.sv[i].sid)}
        terrestrial == 1 + 1 + 2 + 2
        payload ==
            [len |-> network + 2 + 2 + 2 + 2 + ts_info + service_list
                     + 4 * Cardinality(partial) + terrestrial,
             transmission |-> [i \in 1..n |->
                 [type |-> IF OneSegTest(m.sv[i].sid) THEN 175 ELSE 15,
                  sid |-> put16(m.sv[i].sid)]],
             partial_reception |-> {put16(m.sv[i].sid) : i \in partial}]
    IN mpegts_write_section1(m, SecKey("nit", 0), NIT_TID, m.ts.onid,
                             m.ts.tables_version, payload)

\* The TOT is a short section, written without mpegts_write_section1.
mpegts_write_tot(m) ==
    LET \* q - section: table_id, length, UTC time, loop length, descriptor
        q == 1 + 2 + 5 + 2 + (1 + 1 + 3 + 1 + 2 + 5 + 2)
        tot_length == (q - 1) - 2 + 4
        word == put16(BitOr(45056, tot_length))
        tbl == [tid |-> TOT_TID, id |-> 0, version |-> 0,
                section_length |-> word % 4096, flags |-> word - (word % 4096),
                long |-> FALSE, body |-> [len |-> q - 3]]
    IN mpegts_write_section(m, SecKey("tot", 0), tot_length + 3, tbl)

mpegts_write_eit(m) ==
    LET n == m.ts.nb_services
        short_event == 1 + 1 + 3 + (1 + 5) + (1 + 1)
        parental == 1 + 4
        full_seg == 13 + 19 + 4
        entry(i) ==
            [sid |-> put16(m.sv[i].sid),
             one_seg |-> OneSegTest(m.sv[i].sid),
             len |-> 2 + 5 + 3 + 2 + short_event + parental
                     + (IF OneSegTest(m.sv[i].sid) THEN 0 ELSE full_seg)]
        entries == [i \in 1..n |-> entry(i)]
        payload == [len |-> 2 + 2 + 1 + 1 + SeqSum([i \in 1..n |-> entries[i].len]),
                    entries |-> entries]
    IN mpegts_write_section1(m, SecKey("eit", 0), EIT_TID, m.sv[n].sid,
                             m.ts.tables_version, payload)


(***************************************************************************)
(* mpegts_init.  cfg is the muxer context as the caller set it up: the     *)
(* private options and cfg.streams, one record per AVStream.               *)
(***************************************************************************)
mpegts_add_service(ts, sv, sid, provider_name, name) ==
    Append(sv, [pmt |-> [pid |-> ts.pmt_start_pid + Len(sv), cc |-> 15],
                sid |-> sid, pcr_pid |-> 8191,
                provider_name |-> provider_name, name |-> name,
                pcr_packet_count |-> 0, pcr_packet_period |-> 0])

\* ( ts->onid & 0x7FF ) << 5 | type << 3 | counter
CalculatedServiceID(onid, type, counter) ==
    BitOr(BitOr(Shl(BitAnd(onid, 2047), 5), Shl(type, 3)), counter)

\* The switch on transmission_profile: the services it adds to sv0.
ProfileServices(ts, sv0) ==
    LET add(sv, type, counter, name) ==
            mpegts_add_service(ts, sv, CalculatedServiceID(ts.onid, type, counter),
                               DEFAULT_PROVIDER_NAME, name)
    IN CASE ts.transmission_profile = 1 ->
              add(add(sv0, 0, 0, "SVC HD Full Seg"), 3, 1, "SVC LD 1-Seg")
         [] ts.transmission_profile = 2 ->
              add(add(add(add(add(sv0, 0, 0, "SVC SD - 1"), 0, 1, "SVC SD - 2"),
                          0, 2, "SVC SD - 3"), 0, 3, "SVC SD - 4"),
                  3, 4, "SVC LD 1-Seg")
         [] ts.transmission_profile = 3 ->
              add(add(add(sv0, 0, 0, "SVC HD - 1"), 0, 1, "SVC HD - 2"),
                  3, 4, "SVC LD 1-Seg")
         [] OTHER ->
              mpegts_add_service(ts, sv0, ts.service_id, DEFAULT_PROVIDER_NAME,
                                 DEFAULT_SERVICE_NAME)

\* ts->final_nb_services as the switch sets it.
FinalNbServices(ts) ==
    CASE ts.transmission_profile = 1 -> 2
      [] ts.transmission_profile = 2 -> 5
      [] ts.transmission_profile = 3 -> 3
      [] OTHER -> 1

\* for (i = 0; i < s->nb_programs; i++): the switch once per program
RECURSIVE ProgramServices(_, _, _)
ProgramServices(ts, sv, i) ==
    IF i >= ts.nb_programs THEN sv
    ELSE ProgramServices(ts, ProfileServices(ts, sv), i + 1)

\* The services of mpegts_init: those of the switch, made once when no
\* AVProgram is defined and once for each AVProgram otherwise.
InitServices(ts) ==
    IF ts.nb_programs = 0 THEN ProfileServices(ts, <<>>)
    ELSE ProgramServices(ts, <<>>, 0)

\* One iteration of the "assign pids to each stream" loop: stream i (from 1)
\* of cfg.streams; r = [ret, sv, st, pcr_st].
InitStream(ts, r, c, i) ==
    LET k == ((i - 1) % ts.final_nb_services) + 1
        pid == IF c.id < 16 THEN ts.start_pid + (i - 1) ELSE c.id
        type == CodecType(c.codec_id)
        setpcr == type = "video" /\ r.sv[k].pcr_pid = 8191
        wst == [service |-> k, pid |-> pid, cc |-> 15, payload_size |-> 0,
                payload |-> <<>>,
                first_pts_check |-> 1, prev_payload_key |-> 0,
                payload_pts |-> AV_NOPTS_VALUE, payload_dts |-> AV_NOPTS_VALUE,
                payload_flags |-> 0,
                amux |-> c.codec_id = "aac" /\ c.extradata_size > 0,
                opus_queued_samples |-> 0,
                opus_pending_trim_start |->
                    IF c.codec_id = "opus"
                    THEN (c.initial_padding * 48000) \div c.sample_rate ELSE 0,
                id |-> c.id, codec_id |-> c.codec_id, codec_type |-> type,
                tb_num |-> c.tb_num, tb_den |-> c.tb_den,
                sample_rate |-> c.sample_rate, frame_size |-> c.frame_size,
                extradata_size |-> c.extradata_size,
                extradata_avcc |-> c.extradata_avcc, languages |-> c.languages,
                nb_frames |-> 0]
    IN IF c.id >= 8191 THEN [r EXCEPT !.ret = AVERROR_EINVAL]
       ELSE IF pid = r.sv[k].pmt.pid THEN [r EXCEPT !.ret = AVERROR_EINVAL]
       ELSE IF \E j \in 1..(i - 1) : r.st[j].pid = pid
            THEN [r EXCEPT !.ret = AVERROR_EINVAL]
       ELSE [ret |-> 0,
             sv |-> IF setpcr THEN [r.sv EXCEPT ![k].pcr_pid = pid] ELSE r.sv,
             st |-> Append(r.st, wst),
             pcr_st |-> IF setpcr THEN i ELSE r.pcr_st]

RECURSIVE InitStreams(_, _, _, _)
InitStreams(ts, r, streams, i) ==
    IF i > Len(streams) \/ r.ret # 0 THEN r
    ELSE InitStreams(ts, InitStream(ts, r, streams[i], i), streams, i + 1)

\* a * b / c of 64-bit operands, a, b, c > 0 (the product is never formed:
\* b and c are reduced by their common divisor first).
Int64MulDiv(a, b, c) ==
    (a * (b \div GCD(b, c))) \div (c \div GCD(b, c))

\* x + y of two ints, x + y >= -2^31, as a two's complement machine has it.
AddWrap(x, y) ==
    IF x > 0 /\ y > INT_MAX - x
    THEN ((x - 1073741824) - 1073741824) + ((y - 1073741824) - 1073741824)
    ELSE x + y

\* a * n of ints a > 0, n >= 0 on such a machine.
RECURSIVE MulWrap(_, _)
MulWrap(a, n) == IF n = 0 THEN 0 ELSE AddWrap(MulWrap(a, n - 1), a)

\* a / b of C, b > 0: the quotient is truncated towards zero.
TruncDiv(a, b) == IF a >= 0 THEN a \div b ELSE -((-a) \div b)

\* (ts->mux_rate * PCR_RETRANS_TIME) / (TS_PACKET_SIZE * 8 * 1000) is
\* computed in int.  A product beyond INT_MAX is undefined; a build either
\* wraps it or keeps it in a wider register.
CbrPcrPeriod(mux_rate) ==
    IF mux_rate <= INT_MAX \div PCR_RETRANS_TIME
    THEN {(mux_rate * PCR_RETRANS_TIME) \div (TS_PACKET_SIZE * 8 * 1000)}
    ELSE {TruncDiv(MulWrap(mux_rate, PCR_RETRANS_TIME),
                   TS_PACKET_SIZE * 8 * 1000),
          Int64MulDiv(mux_rate, PCR_RETRANS_TIME, TS_PACKET_SIZE * 8 * 1000)}

\* pcr_packet_period of the PCR stream p; q is the quotient above.
InitPcrPeriod(ts, p, q) ==
    IF ts.mux_rate > 1
    THEN q
    ELSE LET v == IF p.codec_type = "audio"
                  THEN (IF p.frame_size = 0 THEN p.sample_rate \div (10 * 512)
                        ELSE p.sample_rate \div (10 * p.frame_size))
                  ELSE p.tb_den \div (10 * p.tb_num)
         IN IF v = 0 THEN 1 ELSE v

\* X_packet_period of a table with retransmission time t (ms), VBR default
\* d, and time limit `period` seconds.
InitTablePeriod(ts, t, d, period) ==
    IF period < INT_MAX \div 2 THEN INT_MAX
    ELSE IF ts.mux_rate > 1
         THEN Int64MulDiv(ts.mux_rate, t, TS_PACKET_SIZE * 8 * 1000)
         ELSE d

mpegts_init(cfg, q) ==
    LET ts0 == [tsid |-> cfg.transport_stream_id, onid |-> cfg.original_network_id,
                service_id |-> cfg.service_id,
                transmission_profile |-> cfg.transmission_profile,
                pmt_start_pid |-> cfg.pmt_start_pid, start_pid |-> cfg.start_pid,
                m2ts_mode |-> cfg.m2ts_mode, mux_rate |-> cfg.mux_rate,
                pes_payload_size |-> cfg.pes_payload_size, flags |-> cfg.flags,
                reemit_pat_pmt |-> cfg.reemit_pat_pmt, copyts |-> cfg.copyts,
                tables_version |-> cfg.tables_version,
                omit_video_pes_length |-> cfg.omit_video_pes_length,
                pat_period |-> cfg.pat_period, sdt_period |-> cfg.sdt_period,
                pcr_period |-> cfg.pcr_period, nb_programs |-> cfg.nb_programs,
                nit_period |-> 0, tot_period |-> 0, eit_period |-> 0,
                max_delay |-> IF cfg.max_delay < 0 THEN 0 ELSE cfg.max_delay,
                first_pcr |-> 0]
        sv0 == InitServices(ts0)
        ts1 == ts0 @@ [nb_services |-> Len(sv0),
                       final_nb_services |-> FinalNbServices(ts0),
                       pat |-> [pid |-> PAT_PID, cc |-> 15],
                       sdt |-> [pid |-> SDT_PID, cc |-> 15],
                       nit |-> [pid |-> NIT_PID, cc |-> 15],
                       tot |-> [pid |-> TOT_PID, cc |-> 15],
                       eit |-> [pid |-> EIT_PID, cc |-> 15]]
        r == InitStreams(ts1, [ret |-> 0, sv |-> sv0, st |-> <<>>, pcr_st |-> 0],
                         cfg.streams, 1)
        n == Len(cfg.streams)
        \* "if no video stream, use the first stream as PCR"
        fallback == r.sv[r.st[n].service].pcr_pid = 8191
        pcr_st == IF fallback THEN 1 ELSE r.pcr_st
        k == r.st[pcr_st].service
        period == InitPcrPeriod(ts1, r.st[pcr_st], q)
        sv1 == [r.sv EXCEPT ![k].pcr_pid = IF fallback THEN r.st[1].pid ELSE @,
                            ![k].pcr_packet_period = period,
                            ![k].pcr_packet_count = period]
        sdtp == InitTablePeriod(ts1, SDT_RETRANS_TIME, 200, ts1.sdt_period)
        patp == InitTablePeriod(ts1, PAT_RETRANS_TIME, 40, ts1.pat_period)
        nitp == InitTablePeriod(ts1, NIT_RETRANS_TIME, 200, ts1.nit_period)
        totp == InitTablePeriod(ts1, TOT_RETRANS_TIME, 200, ts1.tot_period)
        eitp == InitTablePeriod(ts1, EIT_RETRANS_TIME, 200, ts1.eit_period)
        ts2 == [ts1 EXCEPT
                  !.first_pcr = IF ts1.mux_rate > 1 /\ ts1.copyts < 1
                                THEN av_rescale(ts1.max_delay, PCR_TIME_BASE,
                                                AV_TIME_BASE)
                                ELSE @,
                  !.m2ts_mode = IF @ = -1 THEN cfg.m2ts_ext ELSE @]
                @@ [sdt_packet_period |-> sdtp, sdt_packet_count |-> sdtp - 1,
                    pat_packet_period |-> patp, pat_packet_count |-> patp - 1,
                    nit_packet_period |-> nitp, nit_packet_count |-> nitp - 1,
                    tot_packet_period |-> totp, tot_packet_count |-> totp - 1,
                    eit_packet_period |-> eitp, eit_packet_count |-> eitp - 1,
                    last_pat_ts |-> AV_NOPTS_VALUE, last_sdt_ts |-> AV_NOPTS_VALUE,
                    last_nit_ts |-> AV_NOPTS_VALUE, last_tot_ts |-> AV_NOPTS_VALUE,
                    last_eit_ts |-> AV_NOPTS_VALUE]
    IN IF r.ret # 0 THEN [ret |-> r.ret, ts |-> ts1, sv |-> r.sv, st |-> r.st]
       ELSE [ret |-> 0, ts |-> ts2, sv |-> sv1, st |-> r.st]


(***************************************************************************)
(* retransmit_si_info.  i is the stream whose PES is being written and     *)
(* first tells whether this is the first call for that PES; both are only  *)
(* logged.                                                                 *)
(***************************************************************************)
\* A variant of TableDue whose time limit must be exceeded, not just reached.
TableDue_LimitExceeded(count, packet_period, dts, last, period) ==
    \/ count + 1 = packet_period
    \/ dts # AV_NOPTS_VALUE /\ last = AV_NOPTS_VALUE
    \/ dts # AV_NOPTS_VALUE /\ (dts - last) \div 90000 > period

\* ++count == period || (dts set && last unset) || (dts set && dts - last >=
\* period * 90000.0), for a whole number of seconds `period`.
TableDue(count, packet_period, dts, last, period) ==
    \/ count + 1 = packet_period
    \/ dts # AV_NOPTS_VALUE /\ last = AV_NOPTS_VALUE
    \/ dts # AV_NOPTS_VALUE /\ (dts - last) \div 90000 >= period

TableStamp(dts, last) == IF dts # AV_NOPTS_VALUE THEN Max(dts, last) ELSE last

\* for (i = 0; i < ts->nb_services; i++) mpegts_write_pmt(s, ts->services[i])
RECURSIVE WritePmts(_, _)
WritePmts(m, k) ==
    IF k > m.ts.nb_services THEN m ELSE WritePmts(mpegts_write_pmt(m, k), k + 1)

RetransmitSdt(m, dts) ==
    IF TableDue(m.ts.sdt_packet_count, m.ts.sdt_packet_period, dts,
                m.ts.last_sdt_ts, m.ts.sdt_period)
    THEN mpegts_write_sdt([m EXCEPT !.ts.sdt_packet_count = 0,
                                    !.ts.last_sdt_ts = TableStamp(dts, @)])
    ELSE [m EXCEPT !.ts.sdt_packet_count = @ + 1]

RetransmitNit(m, dts) ==
    IF TableDue(m.ts.nit_packet_count, m.ts.nit_packet_period, dts,
                m.ts.last_nit_ts, m.ts.nit_period)
    THEN mpegts_write_nit([m EXCEPT !.ts.nit_packet_count = 0,
                                    !.ts.last_nit_ts = TableStamp(dts, @)])
    ELSE [m EXCEPT !.ts.nit_packet_count = @ + 1]

RetransmitTot(m, dts) ==
    IF TableDue(m.ts.tot_packet_count, m.ts.tot_packet_period, dts,
                m.ts.last_tot_ts, m.ts.tot_period)
    THEN mpegts_write_tot([m EXCEPT !.ts.tot_packet_count = 0,
                                    !.ts.last_tot_ts = TableStamp(dts, @)])
    ELSE [m EXCEPT !.ts.tot_packet_count = @ + 1]

RetransmitEit(m, dts) ==
    IF TableDue(m.ts.eit_packet_count, m.ts.eit_packet_period, dts,
                m.ts.last_eit_ts, m.ts.eit_period)
    THEN mpegts_write_eit([m EXCEPT !.ts.eit_packet_count = 0,
                                    !.ts.last_eit_ts = TableStamp(dts, @)])
    ELSE [m EXCEPT !.ts.eit_packet_count = @ + 1]

RetransmitPat(m, force_pat, dts) ==
    IF TableDue(m.ts.pat_packet_count, m.ts.pat_packet_period, dts,
                m.ts.last_pat_ts, m.ts.pat_period) \/ force_pat
    THEN WritePmts(mpegts_write_pat([m EXCEPT !.ts.pat_packet_count = 0,
                                       !.ts.last_pat_ts = TableStamp(dts, @)]),
                   1)
    ELSE [m EXCEPT !.ts.pat_packet_count = @ + 1]

\* X_packet_count and last_X_ts of the five tables.
TableCounters(t) ==
    [sdt |-> [count |-> t.sdt_packet_count, last |-> t.last_sdt_ts],
     nit |-> [count |-> t.nit_packet_count, last |-> t.last_nit_ts],
     tot |-> [count |-> t.tot_packet_count, last |-> t.last_tot_ts],
     eit |-> [count |-> t.eit_packet_count, last |-> t.last_eit_ts],
     pat |-> [count |-> t.pat_packet_count, last |-> t.last_pat_ts]]

\* The call is logged: where the output stood, the arguments, and the table
\* counters on entry and (LogPollEnd) on return.
LogPoll(m, force_pat, dts, i, first) ==
    [m EXCEPT !.polls = Append(@, [at |-> Len(m.sink), force |-> force_pat,
                                   dts |-> dts, st |-> i, pes |-> Len(m.pes),
                                   first |-> first,
                                   before |-> TableCounters(m.ts),
                                   after |-> TableCounters(m.ts)])]

LogPollEnd(m) ==
    [m EXCEPT !.polls[Len(m.polls)].after = TableCounters(m.ts)]

retransmit_si_info(m, force_pat, dts, i, first) ==
    LogPollEnd(
        RetransmitPat(
            RetransmitEit(
                RetransmitTot(
                    RetransmitNit(
                        RetransmitSdt(LogPoll(m, force_pat, dts, i, first), dts),
                        dts),
                    dts),
                dts),
            force_pat, dts))

(***************************************************************************)
(* Packets without payload.                                                *)
(***************************************************************************)
\* The PCR as a demultiplexer decodes it: 33-bit base, 9-bit extension.
write_pcr_bits(pcr) == [base |-> pcr \div 300, ext |-> pcr % 300]
PcrValue(b) == b.base * 300 + b.ext

mpegts_insert_null_packet(m) ==
    section_write_packet(m, [BasePkt EXCEPT !.k = "null", !.b0 = 71, !.b1 = 31,
                                            !.b2 = 255, !.b3 = 16, !.pad = 184])

mpegts_insert_pcr_only(m, i) ==
    LET st == m.st[i]
    IN section_write_packet(m,
          [BasePkt EXCEPT !.k = "pcr", !.b0 = 71, !.b1 = Shr(st.pid, 8) % 256,
                          !.b2 = st.pid % 256, !.b3 = BitOr(32, st.cc),
                          !.af_len = TS_PACKET_SIZE - 5, !.af_flags = 16,
                          !.pcr = PcrValue(write_pcr_bits(get_pcr(m))),
                          !.stuff = TS_PACKET_SIZE - 12, !.src = i])


(***************************************************************************)
(* mpegts_write_pes.                                                       *)
(***************************************************************************)
\* stream_id byte of the PES header.
PesStreamId(st, m2ts_mode, stream_id) ==
    IF st.codec_type = "video" THEN (IF st.codec_id = "dirac" THEN 253 ELSE 224)
    ELSE IF st.codec_type = "audio" /\ st.codec_id \in {"mp2", "mp3", "aac"}
         THEN 192
    ELSE IF st.codec_type = "audio" /\ st.codec_id = "ac3" /\ m2ts_mode # 0
         THEN 253
    ELSE IF st.codec_type = "data"
         THEN (IF stream_id # -1 THEN stream_id ELSE 252)
    ELSE 189

\* The PES header written into the first packet: its fields and hdr, the
\* bytes from the start code to the first payload byte.
PesHeader(ts, st, payload_size, pts0, dts0, stream_id) ==
    LET klv == st.codec_type = "data" /\ stream_id = 189
        pts == IF klv THEN AV_NOPTS_VALUE ELSE pts0
        dts == IF klv THEN AV_NOPTS_VALUE ELSE dts0
        is_dvb_subtitle == st.codec_type = "subtitle"
                           /\ st.codec_id = "dvb_subtitle"
        is_dvb_teletext == st.codec_type = "subtitle"
                           /\ st.codec_id = "dvb_teletext"
        has_pts == pts # AV_NOPTS_VALUE
        has_dts == dts # AV_NOPTS_VALUE /\ pts # AV_NOPTS_VALUE /\ dts # pts
        ext == (IF st.codec_type = "video" /\ st.codec_id = "dirac" THEN 3 ELSE 0)
               + (IF ts.m2ts_mode # 0 /\ st.codec_type = "audio"
                     /\ st.codec_id = "ac3" THEN 3 ELSE 0)
        hl0 == (IF has_pts THEN 5 ELSE 0) + (IF has_dts THEN 5 ELSE 0) + ext
        header_len == IF is_dvb_teletext THEN 36 ELSE hl0
        len0 == payload_size + header_len + 3 + (IF is_dvb_subtitle THEN 3 ELSE 0)
        len == IF len0 > 65535 THEN 0
               ELSE IF ts.omit_video_pes_length # 0 /\ st.codec_type = "video"
                    THEN 0 ELSE len0
    IN [stream_id |-> PesStreamId(st, ts.m2ts_mode, stream_id),
        PES_packet_length |-> len,
        flags |-> (IF has_pts THEN 128 ELSE 0) + (IF has_dts THEN 64 ELSE 0)
                  + (IF ext > 0 THEN 1 ELSE 0),
        header_len |-> header_len,
        pts |-> pts, dts |-> IF has_dts THEN dts ELSE AV_NOPTS_VALUE,
        is_dvb_subtitle |-> is_dvb_subtitle,
        \* pts and dts as the loop continues with them
        next_pts |-> pts, next_dts |-> dts,
        \* q advances: 9 fixed bytes, the optional fields (or the teletext
        \* stuffing up to 0x24), the two DVB subtitle bytes
        hdr |-> 9 + (IF is_dvb_teletext THEN Max(hl0, 36) ELSE hl0)
                + (IF is_dvb_subtitle THEN 2 ELSE 0)]

\* "add stuffing with AFC": buf[4] once stuffing_len bytes of stuffing are
\* made room for, in an adaptation field that exists (af0) or in a new one.
StuffedAfLength(af0, af_len0, stuffing_len) ==
    IF stuffing_len > 0
    THEN (IF af0 THEN af_len0 + stuffing_len ELSE stuffing_len - 1)
    ELSE af_len0

\* One TS packet of the PES: L is the loop state, write_pcr0 the decision of
\* the period counter, ub the PCR computed from an unset dts.
PesPacket(m, i, L, key, stream_id, write_pcr0, ub) ==
    LET st == m.st[i]
        ts == m.ts
        delay == av_rescale(ts.max_delay, 90000, AV_TIME_BASE)
        is_pcr == st.pid = m.sv[st.service].pcr_pid
        cc == (st.cc + 1) % 16
        rai == key # 0 /\ L.is_start /\ L.pts # AV_NOPTS_VALUE
        write_pcr == write_pcr0 \/ (rai /\ is_pcr)
        pcr == IF ts.mux_rate > 1 THEN get_pcr(m)
               ELSE IF L.dts = AV_NOPTS_VALUE THEN ub
               ELSE (L.dts - delay) * 300
        \* set_af_flag, extend_af
        af0 == rai \/ write_pcr
        af_len0 == IF af0 THEN 1 + (IF write_pcr THEN 6 ELSE 0) ELSE 0
        q0 == IF af0 THEN 5 + af_len0 ELSE 4
        ph == PesHeader(ts, st, L.payload_size, L.pts, L.dts, stream_id)
        hdr == IF L.is_start THEN ph.hdr ELSE 0
        is_dvb_subtitle == IF L.is_start THEN ph.is_dvb_subtitle
                           ELSE L.is_dvb_subtitle
        payload_size == L.payload_size
                        + (IF L.is_start /\ ph.is_dvb_subtitle THEN 1 ELSE 0)
        header_len == q0 + hdr
        len == Min(TS_PACKET_SIZE - header_len, payload_size)
        stuffing_len == TS_PACKET_SIZE - header_len - len
        af == af0 \/ stuffing_len > 0
        af_len == StuffedAfLength(af0, af_len0, stuffing_len)
        af_flags == (IF rai THEN 64 ELSE 0) + (IF write_pcr THEN 16 ELSE 0)
        pkt == [BasePkt EXCEPT
                  !.k = "pes", !.b0 = 71,
                  !.b1 = (Shr(st.pid, 8) + (IF L.is_start THEN 64 ELSE 0)) % 256,
                  !.b2 = st.pid % 256,
                  !.b3 = 16 + cc + (IF af THEN 32 ELSE 0),
                  !.af_len = af_len, !.af_flags = af_flags,
                  !.pcr = IF write_pcr THEN PcrValue(write_pcr_bits(pcr)) ELSE -1,
                  !.stuff = IF stuffing_len > 0
                            THEN (IF af0 THEN stuffing_len
                                  ELSE Max(stuffing_len - 2, 0))
                            ELSE 0,
                  !.hdr = hdr, !.off = L.off, !.len = len,
                  !.dpos = TS_PACKET_SIZE - len,
                  !.tbl = IF L.is_start THEN ph ELSE <<>>, !.src = i]
        m1 == section_write_packet([m EXCEPT !.st[i].cc = cc], pkt)
        L1 == [L EXCEPT !.payload_size = payload_size - len, !.off = @ + len,
                        !.is_start = FALSE, !.force_pat = FALSE,
                        !.is_dvb_subtitle = is_dvb_subtitle,
                        !.pts = IF L.is_start THEN ph.next_pts ELSE @,
                        !.dts = IF L.is_start THEN ph.next_dts ELSE @]
    IN [m |-> m1, L |-> L1]

\* A variant of the loop body in which the null packet does not depend on
\* the PCR-only packet: a due PCR is followed by a null packet in the same
\* iteration.
PesStep_NullAfterPcr(m1, i, L, key, stream_id, ub) ==
    LET st == m1.st[i]
        k == st.service
        is_pcr == st.pid = m1.sv[k].pcr_pid
        count == IF is_pcr /\ (m1.ts.mux_rate > 1 \/ L.is_start)
                 THEN m1.sv[k].pcr_packet_count + 1
                 ELSE m1.sv[k].pcr_packet_count
        write_pcr == is_pcr /\ count >= m1.sv[k].pcr_packet_period
        m2 == [m1 EXCEPT !.sv[k].pcr_packet_count =
                             IF write_pcr THEN 0 ELSE count]
        delay == av_rescale(m1.ts.max_delay, 90000, AV_TIME_BASE)
    IN IF m1.ts.mux_rate > 1 /\ L.dts # AV_NOPTS_VALUE
          /\ L.dts - (get_pcr(m1) \div 300) > delay
       THEN [m |-> mpegts_insert_null_packet(
                      IF write_pcr THEN mpegts_insert_pcr_only(m2, i) ELSE m2),
             L |-> L]
       ELSE PesPacket(m2, i, L, key, stream_id, write_pcr, ub)

\* The body of the loop once retransmit_si_info has run: the PCR period
\* counter, then a filler packet (the loop continues with L) or a packet
\* of the PES (the loop continues with what is left).
PesStep(m1, i, L, key, stream_id, ub) ==
    LET st == m1.st[i]
        k == st.service
        is_pcr == st.pid = m1.sv[k].pcr_pid
        count == IF is_pcr /\ (m1.ts.mux_rate > 1 \/ L.is_start)
                 THEN m1.sv[k].pcr_packet_count + 1
                 ELSE m1.sv[k].pcr_packet_count
        write_pcr == is_pcr /\ count >= m1.sv[k].pcr_packet_period
        m2 == [m1 EXCEPT !.sv[k].pcr_packet_count =
                             IF write_pcr THEN 0 ELSE count]
        delay == av_rescale(m1.ts.max_delay, 90000, AV_TIME_BASE)
    IN IF m1.ts.mux_rate > 1 /\ L.dts # AV_NOPTS_VALUE
          /\ L.dts - (get_pcr(m1) \div 300) > delay
       THEN [m |-> IF write_pcr THEN mpegts_insert_pcr_only(m2, i)
                   ELSE mpegts_insert_null_packet(m2),
             L |-> L]
       ELSE PesPacket(m2, i, L, key, stream_id, write_pcr, ub)

\* A variant of the loop that inserts the filler packets first and polls
\* the tables only for the packet of the PES.
RECURSIVE mpegts_write_pes_loop_FillerFirst(_, _, _, _, _)
mpegts_write_pes_loop_FillerFirst(r, i, key, stream_id, ub) ==
    IF r.L.payload_size <= 0 THEN r.m
    ELSE IF r.m.ts.mux_rate > 1 /\ r.L.dts # AV_NOPTS_VALUE
            /\ r.L.dts - (get_pcr(r.m) \div 300)
                 > av_rescale(r.m.ts.max_delay, 90000, AV_TIME_BASE)
    THEN mpegts_write_pes_loop_FillerFirst(
            PesStep(r.m, i, r.L, key, stream_id, ub), i, key, stream_id, ub)
    ELSE mpegts_write_pes_loop_FillerFirst(
            PesStep(retransmit_si_info(r.m, r.L.force_pat, r.L.dts, i,
                                       r.L.first),
                    i, [r.L EXCEPT !.force_pat = FALSE, !.first = FALSE],
                    key, stream_id, ub),
            i, key, stream_id, ub)

\* while (payload_size > 0)
RECURSIVE mpegts_write_pes_loop(_, _, _, _, _)
mpegts_write_pes_loop(r, i, key, stream_id, ub) ==
    IF r.L.payload_size <= 0 THEN r.m
    ELSE mpegts_write_pes_loop(
            PesStep(retransmit_si_info(r.m, r.L.force_pat, r.L.dts, i,
                                       r.L.first),
                    i, [r.L EXCEPT !.force_pat = FALSE, !.first = FALSE],
                    key, stream_id, ub),
            i, key, stream_id, ub)

\* The call is logged: stream, payload size and key flag.
LogPes(m, i, payload, payload_size, key) ==
    [m EXCEPT !.pes = Append(@, [st |-> i, size |-> payload_size, key |-> key,
                                 data |-> payload])]

SetPrevPayloadKey(m, i, key) == [m EXCEPT !.st[i].prev_payload_key = key]

mpegts_write_pes(m, i, payload, payload_size, pts, dts, key, stream_id, ub) ==
    LET st == m.st[i]
        force_pat == (st.codec_type = "video" /\ key # 0
                      /\ st.prev_payload_key = 0)
                     \/ (BitAnd(m.ts.flags, MPEGTS_FLAG_PAT_PMT_AT_FRAMES) # 0
                         /\ st.codec_type = "video")
        L == [payload_size |-> payload_size, off |-> 0, is_start |-> TRUE,
              force_pat |-> force_pat, first |-> TRUE, pts |-> pts, dts |-> dts,
              is_dvb_subtitle |-> FALSE]
    IN SetPrevPayloadKey(
          mpegts_write_pes_loop([m |-> LogPes(m, i, payload, payload_size, key),
                                 L |-> L], i,
                                key, stream_id, ub),
          i, key)

(***************************************************************************)
(* mpegts_write_packet_internal.  An AVPacket is described by what the     *)
(* code reads from it: stream_index, size, pts, dts, key (AV_PKT_FLAG_KEY),*)
(* startcode (the data begins with an Annex-B start code), nal (the NAL    *)
(* type at which the start-code scan stops), sps (an SPS NAL precedes it), *)
(* adts (the AAC sync word), opus_ts (the Opus data already carries a      *)
(* control header), toc and frame_count (the first two Opus bytes),        *)
(* discard_padding (AV_PKT_DATA_SKIP_SAMPLES, 0 if absent), stream_id      *)
(* (AV_PKT_DATA_MPEGTS_STREAM_ID, -1 if absent) and nomem (an allocation   *)
(* made for this packet fails).                                            *)
(***************************************************************************)
AV_PKT_FLAG_KEY == 1

ff_check_h264_startcode(st, pkt) ==
    IF (pkt.size < 5 \/ ~pkt.startcode) /\ st.nb_frames = 0
    THEN AVERROR_INVALIDDATA ELSE 0

check_hevc_startcode(st, pkt) ==
    IF (pkt.size < 5 \/ ~pkt.startcode) /\ st.nb_frames = 0
    THEN AVERROR_PATCHWELCOME ELSE 0

OpusDurations ==
    <<480, 960, 1920, 2880, 480, 960, 1920, 2880, 480, 960, 1920, 2880,
      480, 960, 480, 960,
      120, 240, 480, 960, 120, 240, 480, 960,
      120, 240, 480, 960, 120, 240, 480, 960>>

opus_get_packet_samples(pkt) ==
    IF pkt.size < 1 THEN 0
    ELSE LET frame_duration == OpusDurations[Shr(pkt.toc, 3) + 1]
             code == pkt.toc % 4
             nframes == IF code = 0 THEN 1
                        ELSE IF code \in {1, 2} THEN 2
                        ELSE pkt.frame_count % 64
             duration == nframes * frame_duration
         IN IF code = 3 /\ pkt.size < 2 THEN 0
            ELSE IF duration > 5760 THEN 0 ELSE duration

\* A variant of OpusTrimStart that trims all that is pending from one packet.
OpusTrimStart_WholePending(pending, opus_samples) == pending

\* trim_start = FFMIN(ts_st->opus_pending_trim_start, opus_samples) when a
\* start trim is pending.
OpusTrimStart(pending, opus_samples) ==
    IF pending # 0 THEN Min(pending, opus_samples) ELSE 0

\* The codec-specific part: the error it returns, or the size of the data
\* to mux, the samples of an Opus packet and the pending start trim.  ctrl
\* is the Opus control header when one is prepended: its second byte and
\* the two 16-bit trim fields (-1 when absent).
CodecAdapter(st, pkt) ==
    LET ok(size, samples, trim) ==
            [ret |-> 0, size |-> size, opus_samples |-> samples,
             opus_pending_trim_start |-> trim, ctrl |-> <<>>]
        err(e) == [ret |-> e, size |-> pkt.size, opus_samples |-> 0,
                   opus_pending_trim_start |-> st.opus_pending_trim_start,
                   ctrl |-> <<>>]
        keep == st.opus_pending_trim_start
    IN CASE st.codec_id = "h264" ->
              LET extradd == IF pkt.key # 0 /\ ~st.extradata_avcc /\ ~pkt.sps
                                /\ pkt.nal = 5
                             THEN st.extradata_size ELSE 0
              IN IF ff_check_h264_startcode(st, pkt) < 0
                 THEN err(ff_check_h264_startcode(st, pkt))
                 ELSE IF pkt.nal # 9
                      THEN (IF pkt.nomem THEN err(AVERROR_ENOMEM)
                            ELSE ok(pkt.size + 6 + extradd, 0, keep))
                      ELSE ok(pkt.size, 0, keep)
         [] st.codec_id = "aac" ->
              IF pkt.size < 2 THEN err(AVERROR_INVALIDDATA)
              ELSE IF ~pkt.adts /\ st.amux
                   THEN (IF pkt.nomem THEN err(AVERROR_ENOMEM)
                         ELSE ok(pkt.size + 7, 0, keep))
                   ELSE ok(pkt.size, 0, keep)
         [] st.codec_id = "hevc" ->
              IF check_hevc_startcode(st, pkt) < 0
              THEN err(check_hevc_startcode(st, pkt))
              ELSE ok(pkt.size, 0, keep)
         [] st.codec_id = "opus" ->
              IF pkt.size < 2 THEN err(AVERROR_INVALIDDATA)
              ELSE IF ~pkt.opus_ts
                   THEN LET opus_samples == opus_get_packet_samples(pkt)
                            trim_end == (pkt.discard_padding * 48000)
                                        \div st.sample_rate
                            ctrl_header_size ==
                                pkt.size + 2 + pkt.size \div 255 + 1
                                + (IF keep # 0 THEN 2 ELSE 0)
                                + (IF trim_end # 0 THEN 2 ELSE 0)
                            trim_start == OpusTrimStart(keep, opus_samples)
                            ctrl ==
                                [b1 |-> 224 + (IF keep # 0 THEN 16 ELSE 0)
                                            + (IF trim_end # 0 THEN 8 ELSE 0),
                                 trim_start |-> IF keep # 0
                                                THEN trim_start % 65536 ELSE -1,
                                 trim_end |->
                                    IF trim_end # 0
                                    THEN Min(trim_end, opus_samples - trim_start)
                                         % 65536
                                    ELSE -1]
                        IN IF pkt.nomem THEN err(AVERROR_ENOMEM)
                           ELSE [ok(ctrl_header_size, opus_samples,
                                    keep - trim_start) EXCEPT !.ctrl = ctrl]
                   ELSE ok(pkt.size, 0, keep)
         [] OTHER -> ok(pkt.size, 0, keep)

\* A variant of Emptied that leaves the written payload in the buffer.
Emptied_PayloadKept(m, i, opus) ==
    [m EXCEPT !.st[i].opus_queued_samples = IF opus THEN 0 ELSE @]

\* ts_st->opus_queued_samples = 0 after a packet is written unbuffered.
OpusReset(m, i) == [m EXCEPT !.st[i].opus_queued_samples = 0]

\* ts_st->payload_size = 0 (and opus_queued_samples = 0 where the code
\* resets it) after a buffered payload is written.
Emptied(m, i, opus) ==
    [m EXCEPT !.st[i].payload_size = 0,
              !.st[i].payload = <<>>,
              !.st[i].opus_queued_samples = IF opus THEN 0 ELSE @]

\* mpegts_write_pes on the buffered payload of stream i.
WriteBuffered(m, i, stream_id, ub) ==
    mpegts_write_pes(m, i, m.st[i].payload, m.st[i].payload_size,
                     m.st[i].payload_pts,
                     m.st[i].payload_dts,
                     BitAnd(m.st[i].payload_flags, AV_PKT_FLAG_KEY),
                     stream_id, ub)

\* The loop that flushes every stream whose buffered payload is older than
\* max_delay (or carries no dts).
RECURSIVE FlushStale(_, _, _, _, _, _)
FlushStale(m, i, dts, delay, stream_id, ub) ==
    IF i > Len(m.st) THEN m
    ELSE IF m.st[i].payload_size # 0
            /\ (m.st[i].payload_dts = AV_NOPTS_VALUE
                \/ dts - m.st[i].payload_dts > delay \div 2)
         THEN FlushStale(Emptied(WriteBuffered(m, i, stream_id, ub), i, FALSE),
                         i + 1, dts, delay, stream_id, ub)
         ELSE FlushStale(m, i + 1, dts, delay, stream_id, ub)

\* av_compare_ts(a, 1/90000, b, 1/1000000) >= 0
av_compare_ts_ge(a, b) == a * (AV_TIME_BASE \div 10000) >= b * (90000 \div 10000)

\* The deprecated option sets the flag; the flag resets the counters.
Reemit(m) ==
    IF m.ts.reemit_pat_pmt # 0
       \/ BitAnd(m.ts.flags, MPEGTS_FLAG_REEMIT_PAT_PMT) # 0
    THEN [m EXCEPT !.ts.reemit_pat_pmt = 0,
                   !.ts.pat_packet_count = m.ts.pat_packet_period - 1,
                   !.ts.sdt_packet_count = m.ts.sdt_packet_period - 1,
                   !.ts.nit_packet_count = m.ts.nit_packet_period - 1,
                   !.ts.tot_packet_count = m.ts.tot_packet_period - 1,
                   !.ts.eit_packet_count = m.ts.eit_packet_period - 1,
                   !.ts.flags = @ - BitAnd(@, MPEGTS_FLAG_REEMIT_PAT_PMT)]
    ELSE m

\* buf, size: the data of the packet (as the codec branch left it) is a
\* string of `size` bytes told from every other by the number of the packet.
Bytes(pkt, size) ==
    IF size > 0 THEN <<[pkt |-> pkt.seq, size |-> size]>> ELSE <<>>

\* A variant of WriteOrBuffer that copies a packet to the start of the
\* buffer, not behind the payload that is there.
WriteOrBuffer_CopiedToStart(m, pkt, pts, dts, a, ub) ==
    LET i == pkt.stream_index
        st == m.st[i]
    IN IF st.codec_type # "audio" \/ a.size > m.ts.pes_payload_size
       THEN OpusReset(mpegts_write_pes(m, i, Bytes(pkt, a.size), a.size, pts,
                                       dts, pkt.key, pkt.stream_id, ub),
                      i)
       ELSE [m EXCEPT
               !.st[i].payload_pts = IF st.payload_size = 0 THEN pts ELSE @,
               !.st[i].payload_dts = IF st.payload_size = 0 THEN dts ELSE @,
               !.st[i].payload_flags = IF st.payload_size = 0 THEN pkt.key
                                       ELSE @,
               !.st[i].payload = Bytes(pkt, a.size),
               !.st[i].payload_size = @ + a.size,
               !.st[i].opus_queued_samples = @ + a.opus_samples]

\* The end of the function: one PES for a packet that is not buffered,
\* else the packet joins the stream's payload buffer.
WriteOrBuffer(m, pkt, pts, dts, a, ub) ==
    LET i == pkt.stream_index
        st == m.st[i]
    IN IF st.codec_type # "audio" \/ a.size > m.ts.pes_payload_size
       THEN OpusReset(mpegts_write_pes(m, i, Bytes(pkt, a.size), a.size, pts,
                                       dts, pkt.key, pkt.stream_id, ub),
                      i)
       ELSE [m EXCEPT
               !.st[i].payload_pts = IF st.payload_size = 0 THEN pts ELSE @,
               !.st[i].payload_dts = IF st.payload_size = 0 THEN dts ELSE @,
               !.st[i].payload_flags = IF st.payload_size = 0 THEN pkt.key
                                       ELSE @,
               !.st[i].payload = @ \o Bytes(pkt, a.size),
               !.st[i].payload_size = @ + a.size,
               !.st[i].opus_queued_samples = @ + a.opus_samples]

\* A variant of FlushOwn that does not look at the room left in the buffer.
FlushOwn_RoomNotChecked(m, pkt, dts, a, ub) ==
    LET i == pkt.stream_index
        st == m.st[i]
    IN IF st.payload_size # 0
          /\ (\/ (dts # AV_NOPTS_VALUE /\ st.payload_dts # AV_NOPTS_VALUE
                  /\ av_compare_ts_ge(dts - st.payload_dts, m.ts.max_delay))
              \/ st.opus_queued_samples + a.opus_samples >= 5760)
       THEN Emptied(WriteBuffered(m, i, pkt.stream_id, ub), i, TRUE)
       ELSE m

\* The stream's own buffer is written first when the packet does not fit,
\* spans max_delay or completes 120 ms of Opus.
FlushOwn(m, pkt, dts, a, ub) ==
    LET i == pkt.stream_index
        st == m.st[i]
    IN IF st.payload_size # 0
          /\ (\/ st.payload_size + a.size > m.ts.pes_payload_size
              \/ (dts # AV_NOPTS_VALUE /\ st.payload_dts # AV_NOPTS_VALUE
                  /\ av_compare_ts_ge(dts - st.payload_dts, m.ts.max_delay))
              \/ st.opus_queued_samples + a.opus_samples >= 5760)
       THEN Emptied(WriteBuffered(m, i, pkt.stream_id, ub), i, TRUE)
       ELSE m

\* A variant of CheckAndMux that flushes the stale buffers of the other
\* streams before it returns the error of the codec check.
CheckAndMux_FlushBeforeError(m, pkt, pts, dts, delay, a, ub) ==
    LET i == pkt.stream_index
        mB == [m EXCEPT !.st[i].first_pts_check = 0,
                        !.st[i].opus_pending_trim_start =
                            a.opus_pending_trim_start]
    IN IF m.st[i].first_pts_check # 0 /\ pts = AV_NOPTS_VALUE
       THEN [m |-> m, ret |-> AVERROR_INVALIDDATA]
       ELSE IF a.ret < 0
            THEN [m |-> IF pkt.dts # AV_NOPTS_VALUE
                        THEN FlushStale(mB, 1, dts, delay, pkt.stream_id, ub)
                        ELSE mB,
                  ret |-> a.ret]
            ELSE [m |-> WriteOrBuffer(
                          FlushOwn(
                            IF pkt.dts # AV_NOPTS_VALUE
                            THEN FlushStale(mB, 1, dts, delay, pkt.stream_id, ub)
                            ELSE mB,
                            pkt, dts, a, ub),
                          pkt, pts, dts, a, ub),
                  ret |-> 0]

\* From the first-pts check on; m has seen Reemit.
CheckAndMux(m, pkt, pts, dts, delay, a, ub) ==
    LET i == pkt.stream_index
        mB == [m EXCEPT !.st[i].first_pts_check = 0,
                        !.st[i].opus_pending_trim_start =
                            a.opus_pending_trim_start]
    IN IF m.st[i].first_pts_check # 0 /\ pts = AV_NOPTS_VALUE
       THEN [m |-> m, ret |-> AVERROR_INVALIDDATA]
       ELSE IF a.ret < 0
            THEN [m |-> [m EXCEPT !.st[i].first_pts_check = 0], ret |-> a.ret]
            ELSE [m |-> WriteOrBuffer(
                          FlushOwn(
                            IF pkt.dts # AV_NOPTS_VALUE
                            THEN FlushStale(mB, 1, dts, delay, pkt.stream_id, ub)
                            ELSE mB,
                            pkt, dts, a, ub),
                          pkt, pts, dts, a, ub),
                  ret |-> 0]

mpegts_write_packet_internal(m, pkt, ub) ==
    LET delay == av_rescale(m.ts.max_delay, 90000, AV_TIME_BASE) * 2
        shift(t) == IF m.ts.copyts < 1 /\ t # AV_NOPTS_VALUE THEN t + delay ELSE t
    IN CheckAndMux(Reemit(m), pkt, shift(pkt.pts), shift(pkt.dts), delay,
                   CodecAdapter(m.st[pkt.stream_index], pkt), ub)

RECURSIVE mpegts_write_flush_loop(_, _, _)
mpegts_write_flush_loop(m, i, ub) ==
    IF i > Len(m.st) THEN m
    ELSE IF m.st[i].payload_size > 0
         THEN mpegts_write_flush_loop(
                 Emptied(WriteBuffered(m, i, -1, ub), i, TRUE), i + 1, ub)
         ELSE mpegts_write_flush_loop(m, i + 1, ub)

mpegts_write_flush(m, ub) == mpegts_write_flush_loop(m, 1, ub)

(***************************************************************************)
(* The muxer as a state machine.                                           *)
(***************************************************************************)
VARIABLES phase, cfg, ts, sv, st, sink, pos, polls, pes, hist

vars == <<phase, cfg, ts, sv, st, sink, pos, polls, pes, hist>>

\* Number of write_packet calls (flushes included) made on one muxer.
MaxCalls == 3

\* The context as the option table and the caller leave it when nothing is
\* set: the defaults of `options`, one MPEG-2 video stream at 25 fps.
DefaultStream ==
    [id |-> 0, codec_id |-> "mpeg2video", tb_num |-> 1, tb_den |-> 25,
     sample_rate |-> 0, frame_size |-> 0, extradata_size |-> 0,
     extradata_avcc |-> FALSE, initial_padding |-> 0, languages |-> 0]

AudioStream(codec_id) ==
    [DefaultStream EXCEPT !.codec_id = codec_id, !.tb_den = 48000,
                          !.sample_rate = 48000,
                          !.frame_size = IF codec_id = "opus" THEN 0 ELSE 1152]

DefaultCfg ==
    [transport_stream_id |-> 1, original_network_id |-> 1, service_id |-> 1,
     transmission_profile |-> 0, pmt_start_pid |-> 4096, start_pid |-> 256,
     m2ts_mode |-> -1, m2ts_ext |-> 0, mux_rate |-> 1, pes_payload_size |-> 2930,
     flags |-> 0, reemit_pat_pmt |-> 0, copyts |-> -1, tables_version |-> 0,
     omit_video_pes_length |-> 1, pat_period |-> INT_MAX,
     sdt_period |-> INT_MAX, pcr_period |-> PCR_RETRANS_TIME, max_delay |-> 0,
     nb_programs |-> 0,
     streams |-> <<DefaultStream>>]

\* A packet as the caller hands it over, relative to the caller's clock:
\* ddts is the dts increment (-1: no dts), dpts the pts - dts distance
\* (-1: no pts).
DefaultPacket ==
    [stream_index |-> 1, size |-> 100, key |-> 0, ddts |-> 3600, dpts |-> 0,
     startcode |-> TRUE, nal |-> 9, sps |-> FALSE, adts |-> TRUE,
     opus_ts |-> FALSE, toc |-> 0, frame_count |-> 0, discard_padding |-> 0,
     stream_id |-> -1, nomem |-> FALSE]


Video(size, key) == [DefaultPacket EXCEPT !.size = size, !.key = key]
Audio(i, size, ddts) ==
    [DefaultPacket EXCEPT !.stream_index = i, !.size = size, !.ddts = ddts]

\* The muxers that are driven.  Each is DefaultCfg with some options and
\* streams changed, the packets its caller may submit (packets) and whether
\* the caller sets resend_headers between packets (resend).
Scenario(name, c, packets, resend) ==
    c @@ [name |-> name, packets |-> packets, resend |-> resend]

NoTs(p) == [p EXCEPT !.ddts = -1, !.dpts = -1]
NoPts(p) == [p EXCEPT !.dpts = -1]
NoDts(p) == [p EXCEPT !.ddts = -1]

\* One service, VBR, a video and an MP2 stream, a small PES buffer.
CfgVbr ==
    Scenario("vbr",
        [DefaultCfg EXCEPT !.pes_payload_size = 400,
                           !.streams = <<DefaultStream, AudioStream("mp2")>>],
        {Video(354, 1), Video(100, 0), NoTs(Video(100, 0)),
         Audio(2, 150, 0), Audio(2, 500, 3600)},
        FALSE)

\* The same at a constant bit rate with max_delay 0.1 s.
CfgCbr ==
    Scenario("cbr",
        [DefaultCfg EXCEPT !.mux_rate = 160000, !.max_delay = 100000,
                           !.pes_payload_size = 400,
                           !.streams = <<DefaultStream, AudioStream("mp2")>>],
        {Video(400, 1), [Video(100, 0) EXCEPT !.ddts = 18000],
         Audio(2, 150, 0), Audio(2, 150, 3600)},
        FALSE)

\* One video stream and PES sizes around the capacity of a TS packet; a
\* PES long enough for the continuity counter to wrap.
CfgSizes ==
    Scenario("sizes", DefaultCfg,
        {Video(168, 0), Video(169, 0), Video(170, 0), Video(161, 1),
         Video(3000, 1), [Video(200, 0) EXCEPT !.dpts = 3600]},
        FALSE)

\* Subtitle, teletext and data streams next to the video.
CfgText ==
    Scenario("text",
        [DefaultCfg EXCEPT !.streams =
            <<DefaultStream,
              [DefaultStream EXCEPT !.codec_id = "dvb_subtitle"],
              [DefaultStream EXCEPT !.codec_id = "dvb_teletext"],
              [DefaultStream EXCEPT !.codec_id = "smpte_klv"]>>],
        {Video(100, 1), Audio(2, 160, 0), Audio(3, 200, 3600),
         [Audio(4, 50, 0) EXCEPT !.stream_id = 189]},
        FALSE)

\* Two audio streams that buffer; the caller flushes.
CfgAudio ==
    Scenario("audio",
        [DefaultCfg EXCEPT !.pes_payload_size = 400, !.max_delay = 100000,
                           !.streams = <<AudioStream("mp2"), AudioStream("mp2")>>],
        {Audio(1, 150, 0), Audio(2, 150, 0), Audio(2, 150, 18000)},
        FALSE)

\* The caller asks for the tables again between packets.
CfgResend ==
    Scenario("resend",
        [DefaultCfg EXCEPT !.pes_payload_size = 400,
                           !.streams = <<DefaultStream, AudioStream("mp2")>>],
        {Video(100, 0), NoTs(Video(100, 0)), Audio(2, 150, 0)},
        TRUE)

\* mpegts_flags +pat_pmt_at_frames.
CfgAtFrames ==
    Scenario("at_frames",
        [DefaultCfg EXCEPT !.flags = MPEGTS_FLAG_PAT_PMT_AT_FRAMES,
                           !.streams = <<DefaultStream, AudioStream("mp2")>>],
        {Video(300, 0), Video(100, 1), Audio(2, 3000, 0)},
        FALSE)

\* Key frames and empty video packets, and a packet that has a pts only.
CfgKey ==
    Scenario("key", DefaultCfg,
        {Video(100, 1), Video(300, 0), Video(0, 1), Video(0, 0),
         NoDts(Video(100, 0))},
        FALSE)

\* The ISDB-Tb transmission profiles: streams are dealt to the services
\* round robin.
CfgProfile(n) ==
    Scenario("profile",
        [DefaultCfg EXCEPT !.transmission_profile = n,
                           !.streams = <<DefaultStream, DefaultStream,
                                         AudioStream("mp2")>>],
        {Video(400, 1), Audio(2, 400, 3600), Audio(3, 3000, 3600)},
        FALSE)

\* Profile 1 with the first stream's id set to the second service's PMT PID.
CfgPmtPid ==
    Scenario("pmt_pid",
        [DefaultCfg EXCEPT !.transmission_profile = 1,
                           !.streams = <<[DefaultStream EXCEPT !.id = 4097],
                                         AudioStream("mp2")>>],
        {Video(100, 1), Audio(2, 3000, 3600)},
        FALSE)

\* Streams with a codec-specific check: H.264, AAC (without extradata),
\* Opus and HEVC.
CfgCodec ==
    Scenario("codec",
        [DefaultCfg EXCEPT !.pes_payload_size = 400, !.max_delay = 100000,
            !.streams = <<[DefaultStream EXCEPT !.codec_id = "h264"],
                          AudioStream("aac"), AudioStream("opus"),
                          [DefaultStream EXCEPT !.codec_id = "hevc"]>>],
        {[Video(100, 1) EXCEPT !.startcode = FALSE],
         [Video(100, 1) EXCEPT !.nal = 5, !.nomem = TRUE],
         Video(100, 1),
         Audio(2, 150, 0), Audio(2, 1, 0), NoTs(Audio(2, 150, 0)),
         Audio(3, 1, 0), [Audio(3, 150, 0) EXCEPT !.nomem = TRUE],
         [Audio(4, 100, 18000) EXCEPT !.startcode = FALSE]},
        FALSE)

\* A video stream and eight audio streams whose language metadata lists
\* thirty languages each; PAT and PMT at every video frame, and the caller
\* may ask for the tables again.
CfgLanguages ==
    Scenario("languages",
        [DefaultCfg EXCEPT
            !.flags = MPEGTS_FLAG_PAT_PMT_AT_FRAMES,
            !.streams = <<DefaultStream>> \o
                        [i \in 1..8 |-> [AudioStream("mp2") EXCEPT
                                            !.languages = 30]]],
        {Video(100, 1)},
        TRUE)

\* AAC streams without and with extradata; packets with and without the
\* ADTS sync word.
CfgAac ==
    Scenario("aac",
        [DefaultCfg EXCEPT !.pes_payload_size = 400,
            !.streams = <<AudioStream("aac"),
                          [AudioStream("aac") EXCEPT !.extradata_size = 2]>>],
        {Audio(1, 150, 3600), [Audio(1, 150, 3600) EXCEPT !.adts = FALSE],
         [Audio(1, 500, 3600) EXCEPT !.adts = FALSE],
         [Audio(2, 150, 3600) EXCEPT !.adts = FALSE]},
        FALSE)

\* An Opus stream with an initial padding of 312 samples; packets of 480
\* and of 120 samples, with an end trim, and in MPEG-TS format already.
CfgOpus ==
    Scenario("opus",
        [DefaultCfg EXCEPT !.pes_payload_size = 400,
            !.streams = <<[AudioStream("opus") EXCEPT !.initial_padding = 312]>>],
        {Audio(1, 150, 960), [Audio(1, 150, 240) EXCEPT !.toc = 128],
         [Audio(1, 300, 240) EXCEPT !.toc = 128, !.discard_padding = 100],
         [Audio(1, 150, 960) EXCEPT !.opus_ts = TRUE]},
        FALSE)

\* A video stream next to an Opus stream: the video packets find the Opus
\* payload older than the delay allows.
CfgOpusVideo ==
    Scenario("opus_video",
        [DefaultCfg EXCEPT !.pes_payload_size = 400,
            !.streams = <<DefaultStream, AudioStream("opus")>>],
        {Video(100, 0), Audio(2, 150, 0), Audio(2, 150, 960)},
        FALSE)

\* M2TS mode at a constant bit rate.  max_delay (39.7 s) sets first_pcr
\* close below 2^30, so that the PCR passes 2^30 within the first packets.
CfgM2ts ==
    Scenario("m2ts",
        [DefaultCfg EXCEPT !.m2ts_mode = 1, !.mux_rate = 160000,
                           !.max_delay = 39700000],
        {[Video(100, 1) EXCEPT !.ddts = 9000], Video(100, 0)},
        FALSE)

\* More streams than the PMT holds: a video stream, eight audio streams with
\* thirty and twenty languages, and a ninth audio stream that finds the PMT
\* body beyond SECTION_LENGTH - 32.
CfgOverflow ==
    Scenario("overflow",
        [DefaultCfg EXCEPT
            !.streams = <<DefaultStream>> \o
                        [i \in 1..7 |-> [AudioStream("mp2") EXCEPT
                                            !.languages = 30]] \o
                        <<[AudioStream("mp2") EXCEPT !.languages = 20],
                          AudioStream("mp2")>>],
        {Video(100, 1), Audio(10, 3000, 3600)},
        FALSE)

\* Constant bit rates and PCR periods that only mpegts_init sees: pcr_period
\* set to 40 ms, and a muxrate whose product with PCR_RETRANS_TIME is
\* beyond INT_MAX.
CfgRate(mux_rate, pcr_period) ==
    Scenario("rate",
        [DefaultCfg EXCEPT !.mux_rate = mux_rate, !.pcr_period = pcr_period],
        {}, FALSE)

\* Upstream programs (AVProgram): n of them, in transmission profile p.
\* The muxer is initialised only: with a program defined mpegts_write_pmt
\* reads service->program, which mpegts_init leaves NULL.
CfgPrograms(n, p) ==
    Scenario("programs",
        [DefaultCfg EXCEPT !.nb_programs = n, !.transmission_profile = p,
                           !.streams = <<DefaultStream, AudioStream("mp2"),
                                         AudioStream("mp2")>>],
        {}, FALSE)

\* PIDs chosen by the caller: the first PMT PID and the id of the first
\* stream.  The muxer is initialised only.
CfgPids(pmt_start_pid, id) ==
    Scenario("pids",
        [DefaultCfg EXCEPT !.pmt_start_pid = pmt_start_pid,
                           !.streams = <<[DefaultStream EXCEPT !.id = id],
                                         AudioStream("mp2")>>],
        {}, FALSE)

\* Configurations mpegts_init refuses.
CfgBadId(ids) ==
    Scenario("bad_id",
        [DefaultCfg EXCEPT !.streams =
            [i \in 1..Len(ids) |-> [DefaultStream EXCEPT !.id = ids[i]]]],
        {}, FALSE)

Configs ==
    {CfgVbr, CfgCbr, CfgSizes, CfgText, CfgAudio, CfgResend, CfgAtFrames,
     CfgKey, CfgProfile(1), CfgProfile(2), CfgProfile(3), CfgPmtPid, CfgCodec,
     CfgLanguages, CfgOverflow, CfgAac, CfgOpus, CfgOpusVideo, CfgM2ts,
     CfgRate(160000, 40), CfgRate(200000000, PCR_RETRANS_TIME),
     CfgPrograms(1, 0), CfgPrograms(2, 0), CfgPrograms(2, 1),
     CfgPids(16, 0), CfgPids(7936, 8190), CfgPids(4096, 17),
     CfgBadId(<<8191>>), CfgBadId(<<4096>>), CfgBadId(<<300, 300>>),
     CfgBadId(<<0, 256>>)}

\* The caller's clock: the last dts it stamped.
Clock == IF hist = <<>> THEN 0 ELSE hist[Len(hist)].clock

\* PCR computed from an unset dts at VBR ((dts - delay) * 300 overflows):
\* any value may result.  The choice matters only when a PES without dts
\* can be written.
UndefinedPcr(dts) ==
    IF ts.mux_rate <= 1
       /\ (dts = AV_NOPTS_VALUE
           \/ \E i \in 1..Len(st) : st[i].payload_size > 0
                                    /\ st[i].payload_dts = AV_NOPTS_VALUE)
    THEN {0, 27000000} ELSE {0}

Bundle == [ts |-> ts, sv |-> sv, st |-> st, sink |-> sink, pos |-> pos,
           polls |-> polls, pes |-> pes]

\* The call returns: the bundle becomes the next state and the call is
\* logged.  st->nb_frames is kept by the caller, which counts the packets a
\* stream has written without error.
Return(op, pkt, r) ==
    /\ ts' = r.m.ts
    /\ sv' = r.m.sv
    /\ st' = IF op = "write" /\ r.ret >= 0
             THEN [r.m.st EXCEPT ![pkt.stream_index].nb_frames = @ + 1]
             ELSE r.m.st
    /\ sink' = r.m.sink
    /\ pos' = r.m.pos
    /\ polls' = r.m.polls
    /\ pes' = r.m.pes
    /\ hist' = Append(hist,
          [op |-> op, pkt |-> pkt, ret |-> r.ret,
           from |-> Len(sink), to |-> Len(r.m.sink), polls |-> Len(polls),
           adapted |-> IF op = "write"
                       THEN CodecAdapter(st[pkt.stream_index], pkt) ELSE <<>>,
           buffered |-> {i \in 1..Len(st) : st[i].payload_size > 0},
           left |-> {i \in 1..Len(st) : r.m.st[i].payload_size > 0},
           reemit |-> ts.reemit_pat_pmt # 0
                      \/ BitAnd(ts.flags, MPEGTS_FLAG_REEMIT_PAT_PMT) # 0,
           reemit_after |-> r.m.ts.reemit_pat_pmt # 0
                      \/ BitAnd(r.m.ts.flags, MPEGTS_FLAG_REEMIT_PAT_PMT) # 0,
           clock |-> IF op = "write" /\ pkt.dts # AV_NOPTS_VALUE
                     THEN pkt.dts ELSE Clock])

\* The packet the caller makes of template t at its clock.
Stamp(t) ==
    LET dts == IF t.ddts < 0 THEN AV_NOPTS_VALUE ELSE Clock + t.ddts
        pts == IF t.dpts < 0 THEN AV_NOPTS_VALUE
               ELSE IF t.ddts < 0 THEN Clock + t.dpts ELSE dts + t.dpts
    IN t @@ [pts |-> pts, dts |-> dts, seq |-> Len(hist) + 1]

Init ==
    /\ phase = "new"
    /\ cfg \in Configs
    /\ ts = <<>>
    /\ sv = <<>>
    /\ st = <<>>
    /\ sink = <<>>
    /\ pos = 0
    /\ polls = <<>>
    /\ pes = <<>>
    /\ hist = <<>>

\* mpegts_init
InitMux ==
    /\ phase = "new"
    /\ \E q \in CbrPcrPeriod(cfg.mux_rate) :
          /\ phase' = IF mpegts_init(cfg, q).ret = 0 THEN "ready" ELSE "failed"
          /\ ts' = mpegts_init(cfg, q).ts
          /\ sv' = mpegts_init(cfg, q).sv
          /\ st' = mpegts_init(cfg, q).st
    /\ UNCHANGED <<cfg, sink, pos, polls, pes, hist>>

\* mpegts_write_packet with a packet
WritePacket ==
    /\ phase = "ready"
    /\ Len(hist) < MaxCalls
    /\ \E t \in cfg.packets :
        \E ub \in UndefinedPcr(IF t.ddts < 0 THEN AV_NOPTS_VALUE ELSE 0) :
          Return("write", Stamp(t),
                 mpegts_write_packet_internal(Bundle, Stamp(t), ub))
    /\ UNCHANGED <<phase, cfg>>

\* mpegts_write_packet(s, NULL)
Flush ==
    /\ phase = "ready"
    /\ Len(hist) < MaxCalls
    /\ \E ub \in UndefinedPcr(0) :
          Return("flush", <<>>, [m |-> mpegts_write_flush(Bundle, ub), ret |-> 1])
    /\ UNCHANGED <<phase, cfg>>

\* mpegts_write_end (s->pb is open)
WriteTrailer ==
    /\ phase = "ready"
    /\ \E ub \in UndefinedPcr(0) :
          Return("trailer", <<>>,
                 [m |-> mpegts_write_flush(Bundle, ub), ret |-> 0])
    /\ phase' = "closed"
    /\ UNCHANGED cfg

\* The caller sets mpegts_flags +resend_headers on the running muxer.
SetResendHeaders ==
    /\ phase = "ready"
    /\ cfg.resend
    /\ Len(hist) < MaxCalls
    /\ ts.reemit_pat_pmt = 0
    /\ BitAnd(ts.flags, MPEGTS_FLAG_REEMIT_PAT_PMT) = 0
    /\ ts' = [ts EXCEPT !.flags = BitOr(@, MPEGTS_FLAG_REEMIT_PAT_PMT)]
    /\ UNCHANGED <<phase, cfg, sv, st, sink, pos, polls, pes, hist>>

\* The caller sets the deprecated resend_headers option.
SetReemitOption ==
    /\ phase = "ready"
    /\ cfg.resend
    /\ Len(hist) < MaxCalls
    /\ ts.reemit_pat_pmt = 0
    /\ BitAnd(ts.flags, MPEGTS_FLAG_REEMIT_PAT_PMT) = 0
    /\ ts' = [ts EXCEPT !.reemit_pat_pmt = 1]
    /\ UNCHANGED <<phase, cfg, sv, st, sink, pos, polls, pes, hist>>

Next ==
    \/ InitMux
    \/ WritePacket
    \/ Flush
    \/ WriteTrailer
    \/ SetResendHeaders
    \/ SetReemitOption

Spec == Init /\ [][Next]_vars

(***************************************************************************)
(* Properties.  The output is read as a demultiplexer reads it: from the   *)
(* packets of sink, in order.                                              *)
(***************************************************************************)
Running == phase \in {"ready", "closed"}
Out == 1..Len(sink)
Streams == 1..Len(st)
Services == 1..Len(sv)

\* The payload-carrying packet that precedes packet i on its PID, or 0.
PrevPayloadOnPid(i) ==
    LET c == {j \in 1..(i - 1) : /\ PktPid(sink[j]) = PktPid(sink[i])
                                 /\ PktHasPayload(sink[j])}
    IN IF c = {} THEN 0 ELSE CHOOSE j \in c : \A k \in c : k <= j

\* The PIDs init has assigned, one entry per stream and one per PMT.
AssignedPids ==
    [i \in 1..(Len(st) + Len(sv)) |->
        IF i <= Len(st) THEN st[i].pid ELSE sv[i - Len(st)].pmt.pid]

PidsDistinct ==
    \A i, j \in DOMAIN AssignedPids :
        i # j => AssignedPids[i] # AssignedPids[j]

\* C5: after a successful init the PIDs of all streams and the PMT PIDs of
\* all services are pairwise distinct: init fails when a stream's resolved
\* PID equals the PID of an earlier stream or the PMT PID of any service.
C5_PidsPairwiseDistinct == phase = "ready" => PidsDistinct

\* The continuity counters of the payload-carrying packets of one PID count
\* up by one modulo 16 from 0.
PayloadContinuity ==
    \A i \in Out :
        PktHasPayload(sink[i]) /\ PktPid(sink[i]) # NULL_PID =>
            PktCC(sink[i]) =
                IF PrevPayloadOnPid(i) = 0 THEN 0
                ELSE (PktCC(sink[PrevPayloadOnPid(i)]) + 1) % 16

\* A PCR-only packet repeats the counter of the payload-carrying packet
\* before it on its PID (15 when there is none yet).
PcrOnlyContinuity ==
    \A i \in Out :
        sink[i].k = "pcr" =>
            /\ ~PktHasPayload(sink[i])
            /\ PktCC(sink[i]) =
                IF PrevPayloadOnPid(i) = 0 THEN 15
                ELSE PktCC(sink[PrevPayloadOnPid(i)])

\* C1: on every PID the continuity counters of consecutive payload-carrying
\* packets (sections and PES alike) increase by one modulo 16 from 0; a
\* PCR-only packet carries the current counter and does not advance it; a
\* null packet advances no counter.
C1_Continuity == Running => PayloadContinuity /\ PcrOnlyContinuity

\* C1 where init has assigned every PID once: the counters are kept as the
\* claim says whenever no two producers share a PID.
C1_ContinuityOfDistinctPids ==
    Running /\ PidsDistinct => PayloadContinuity /\ PcrOnlyContinuity

\* Two producers on one PID have each sent a packet.
C1_SharedPidUsed ==
    /\ Running
    /\ \E i \in Streams, k \in Services :
        /\ st[i].pid = sv[k].pmt.pid
        /\ \E a, b \in Out : /\ sink[a].k = "sec" /\ sink[b].k = "pes"
                            /\ PktPid(sink[a]) = st[i].pid
                            /\ PktPid(sink[b]) = st[i].pid

\* The TS packets of the n-th mpegts_write_pes call that carry its PES, and
\* all the packets written during the call that have the stream's PID.
PesPkts(n) == {i \in Out : sink[i].k = "pes" /\ sink[i].pes = n}
PesPidPkts(n) ==
    {i \in Out : sink[i].pes = n /\ PktPid(sink[i]) = st[pes[n].st].pid}
FirstOf(S) == CHOOSE i \in S : \A j \in S : i <= j
LastOf(S) == CHOOSE i \in S : \A j \in S : j <= i
\* The bytes after the PES header: the payload, which for a DVB subtitle
\* ends with the end_of_PES_data_field_marker.
PesDataSize(n) ==
    pes[n].size + (IF sink[FirstOf(PesPkts(n))].tbl.is_dvb_subtitle THEN 1 ELSE 0)

\* The layout of one PES-carrying packet: header, adaptation field (flags
\* byte, PCR and stuffing inside it), PES header, data up to the last byte.
PesPktLayout(p) ==
    /\ 4 + PktAFSize(p) + p.hdr + p.len = TS_PACKET_SIZE
    /\ p.ptr = 0 /\ p.pad = 0
    /\ p.dpos = 4 + PktAFSize(p) + p.hdr
    /\ p.dpos + p.len = TS_PACKET_SIZE
    /\ PktHasPayload(p)
    /\ PktHasAF(p) =>
         p.af_len = (IF p.af_len >= 1 THEN 1 ELSE 0)
                    + (IF p.pcr # -1 THEN 6 ELSE 0) + p.stuff
    /\ ~PktHasAF(p) => p.pcr = -1 /\ p.stuff = 0

\* The packets of P carry consecutive pieces of one byte string of the
\* given size, the PES header in front of the first piece.
PesPieces(P, size) ==
    /\ sink[FirstOf(P)].off = 0
    /\ sink[LastOf(P)].off + sink[LastOf(P)].len = size
    /\ \A i, j \in P :
         (i < j /\ \A k \in P : ~(i < k /\ k < j)) =>
             sink[j].off = sink[i].off + sink[i].len
    /\ \A i \in P :
         /\ PktPusi(sink[i]) = 1 <=> i = FirstOf(P)
         /\ sink[i].hdr > 0 <=> i = FirstOf(P)
         /\ sink[i].tbl # <<>> <=> i = FirstOf(P)
         /\ sink[i].len > 0
    /\ LET h == sink[FirstOf(P)].tbl
       IN /\ sink[FirstOf(P)].hdr = h.hdr
          /\ h.hdr >= 9 + h.header_len
          /\ h.PES_packet_length # 0 => h.PES_packet_length = h.hdr - 6 + size

\* C2: every mpegts_write_pes with a non-empty payload puts on the stream's
\* PID packets of exactly 188 bytes that start with 0x47; only the first
\* PES-carrying packet has payload_unit_start and the PES header; header,
\* adaptation field and payload add up to 188, a short packet being filled
\* by stuffing inside the adaptation field, before the payload; and the
\* payloads concatenated are the PES header followed by the PES payload.
PesPacketisation ==
      \A n \in 1..Len(pes) :
        pes[n].size > 0 =>
          /\ PesPkts(n) # {}
          /\ \A i \in PesPidPkts(n) :
               /\ PktBytes(sink[i]) = TS_PACKET_SIZE
               /\ sink[i].b0 = 71
               /\ sink[i].k \in {"pes", "pcr"}
               /\ sink[i].k = "pcr" => PktPusi(sink[i]) = 0
               /\ sink[i].k = "pes" => PesPktLayout(sink[i])
          /\ PesPieces(PesPkts(n), PesDataSize(n))

C2_PesPacketisation == Running => PesPacketisation

\* C2 where init has assigned every PID once: mpegts_write_pes packetises
\* as the claim says whenever nothing else is sent on the stream's PID.
C2_PesPacketisationOfDistinctPids ==
    Running /\ PidsDistinct => PesPacketisation

\* A PES of three packets or more whose first packet carries a PCR and
\* whose last packet is stuffed, and a PES stuffed by a new adaptation field
\* of a single byte.
C2_StuffedPesWritten ==
    /\ Running
    /\ \E n \in 1..Len(pes) :
         /\ Cardinality(PesPkts(n)) >= 3
         /\ sink[FirstOf(PesPkts(n))].pcr # -1
         /\ sink[LastOf(PesPkts(n))].stuff > 0
    /\ \E i \in Out : sink[i].k = "pes" /\ PktHasAF(sink[i]) /\ sink[i].af_len = 0

\* The packets of stream i the caller has passed to mpegts_write_packet.
InputOf(i) == {n \in 1..Len(hist) : hist[n].op = "write"
                                    /\ hist[n].pkt.stream_index = i}

\* The caller's DTS on the stream that carries the PCR of service k are set
\* and strictly increasing.
PcrStreamDtsIncreasing(k) ==
    \A i \in Streams :
        st[i].pid = sv[k].pcr_pid =>
            /\ \A n \in InputOf(i) : hist[n].pkt.dts # AV_NOPTS_VALUE
            /\ \A n, o \in InputOf(i) : n < o => hist[n].pkt.dts < hist[o].pkt.dts

\* The packets that carry a PCR on the PCR PID of service k.
PcrPkts(k) == {i \in Out : PktPid(sink[i]) = sv[k].pcr_pid /\ sink[i].pcr # -1}

PcrIncreasing ==
    \A k \in Services :
        ts.mux_rate > 1 \/ PcrStreamDtsIncreasing(k) =>
            \A i, j \in PcrPkts(k) : i < j => sink[i].pcr < sink[j].pcr

\* C3: at CBR, and at VBR when the input DTS of the PCR stream increase
\* strictly, the PCR values on a service's PCR PID (in PES adaptation fields
\* and in PCR-only packets) increase strictly in output order.
C3_PcrIncreasing == Running => PcrIncreasing

\* C3 where init has given every service a PCR period: the PCR values
\* increase strictly whenever no service is left with pcr_packet_period 0.
C3_PcrIncreasingOfSetPeriods ==
    Running /\ (\A k \in Services : sv[k].pcr_packet_period >= 1)
        => PcrIncreasing

\* Several PCR values are out on a PCR PID whose stream has increasing DTS,
\* at VBR and at CBR, in a PES and in a PCR-only packet.
C3_SeveralPcrWritten ==
    /\ Running
    /\ \E k \in Services :
         /\ PcrStreamDtsIncreasing(k)
         /\ Cardinality(PcrPkts(k)) >= 2

LastCall == hist[Len(hist)]

\* Every continuity counter: of the streams, of the PMTs, of the SI tables.
Counters(s, v, t) ==
    <<[i \in DOMAIN s |-> s[i].cc], [k \in DOMAIN v |-> v[k].pmt.cc],
      t.pat.cc, t.sdt.cc, t.nit.cc, t.tot.cc, t.eit.cc>>

\* The payload buffer of every stream.
Buffers(s) ==
    [i \in DOMAIN s |-> <<s[i].payload_size, s[i].payload_pts, s[i].payload_dts>>]

\* A call of mpegts_write_packet with a packet returns an error.
WriteFails ==
    /\ phase = "ready"
    /\ Len(hist') = Len(hist) + 1
    /\ hist'[Len(hist')].op = "write"
    /\ hist'[Len(hist')].ret < 0

\* C4: whenever mpegts_write_packet returns an error (missing first PTS,
\* missing H.264/HEVC start code on the first frame, too-short AAC or Opus
\* packet, allocation failure) the call has written no byte and has left
\* every stream's payload_size, payload_pts and payload_dts and every
\* continuity counter unchanged.
C4_ErrorLeavesNoTrace ==
    [][WriteFails =>
          /\ sink' = sink
          /\ pos' = pos
          /\ Buffers(st') = Buffers(st)
          /\ Counters(st', sv', ts') = Counters(st, sv, ts)]_vars

\* The call before has failed although data was buffered and output made,
\* and packets older than max_delay were waiting in another stream's buffer.
C4_ErrorWithDataBuffered ==
    /\ phase = "ready"
    /\ hist # <<>>
    /\ LastCall.op = "write"
    /\ LastCall.ret < 0
    /\ sink # <<>>
    /\ \E i \in Streams :
         /\ i # LastCall.pkt.stream_index
         /\ st[i].payload_size > 0
         /\ LastCall.pkt.dts # AV_NOPTS_VALUE
         /\ LastCall.pkt.dts > st[i].payload_dts

\* The packets in which a section starts, and those of one table.
SectionStarts == {i \in Out : sink[i].k = "sec" /\ sink[i].tbl # <<>>}
StartsOf(tid) == {i \in SectionStarts : sink[i].tbl.tid = tid}

\* The PMT sections that follow the PAT of packet i in its cadence poll, and
\* the place of one of them in their order.
PmtsAfter(i) == {j \in StartsOf(PMT_TID) : j > i /\ sink[j].poll = sink[i].poll}
PmtRank(i, j) == Cardinality({x \in PmtsAfter(i) : x <= j})

\* C6: every PAT lists each service once, as its sid with its PMT PID, the
\* PMT PIDs pairwise distinct; in the same cadence poll the PAT is followed
\* by exactly one PMT section per listed service, in the listed order, on
\* the listed PMT PID and with the service's sid as table_id_extension.
PatThenPmts ==
      \A i \in StartsOf(PAT_TID) :
        LET E == sink[i].tbl.body.entries
        IN /\ PktPid(sink[i]) = PAT_PID
           /\ Len(E) = Len(sv)
           /\ \A k \in Services :
                E[k] = [sid |-> sv[k].sid, pmt_pid |-> sv[k].pmt.pid]
           /\ \A k, l \in Services :
                k # l => E[k].pmt_pid # E[l].pmt_pid /\ E[k].sid # E[l].sid
           /\ Cardinality(PmtsAfter(i)) = Len(E)
           /\ \A j \in PmtsAfter(i) :
                /\ PktPid(sink[j]) = E[PmtRank(i, j)].pmt_pid
                /\ sink[j].tbl.id = E[PmtRank(i, j)].sid
                /\ \A x \in (i + 1)..j :
                     sink[x].k = "sec" /\ sink[x].src.t = "pmt"

C6_PatThenPmts == Running => PatThenPmts

\* The PMT of every service fits a section.
PmtsFit ==
    \A k \in Services :
        3 + 5 + mpegts_write_pmt_loop(Bundle, k, 1, 2 + 2 + 6, <<>>).len + 4
            <= SECTION_LENGTH

\* C6 where every PMT fits its section: PAT and PMTs are written as the
\* claim says whenever mpegts_write_section1 does not drop a PMT.
C6_PatThenPmtsThatFit == Running /\ PmtsFit => PatThenPmts

\* A PAT of five services has been written twice.
C6_PatOfFiveServices ==
    /\ Running
    /\ Len(sv) = 5
    /\ Cardinality(StartsOf(PAT_TID)) >= 2

\* The bytes of the section that starts in packet i: its own and those of
\* the packets that continue it.
RECURSIVE SectionTail(_, _)
SectionTail(j, pid) ==
    IF j <= Len(sink) /\ sink[j].k = "sec" /\ sink[j].tbl = <<>>
       /\ PktPid(sink[j]) = pid
    THEN sink[j].len + SectionTail(j + 1, pid)
    ELSE 0
SectionBytes(i) == sink[i].len + SectionTail(i + 1, PktPid(sink[i]))

\* C7: the 12-bit section_length of every section (PAT, PMT, SDT, NIT, EIT
\* written by mpegts_write_section1, TOT written directly) is at most 1021
\* and is the number of bytes that follow the length field, the four CRC
\* bytes included.
C7_SectionLength ==
    Running =>
      \A i \in SectionStarts :
        LET t == sink[i].tbl
        IN /\ t.tid \in {PAT_TID, PMT_TID, SDT_TID, NIT_TID, EIT_TID, TOT_TID}
           /\ t.section_length <= 1021
           /\ t.section_length = SectionBytes(i) - 3
           /\ t.section_length = (IF t.long THEN 5 ELSE 0) + t.body.len + 4
           /\ sink[i].ptr = 1 /\ sink[i].off = 0

\* Every table has been written, one of them in two packets.
C7_AllTablesWritten ==
    /\ Running
    /\ \A tid \in {PAT_TID, PMT_TID, SDT_TID, NIT_TID, EIT_TID, TOT_TID} :
         StartsOf(tid) # {}
    /\ \E i \in SectionStarts : SectionBytes(i) > sink[i].len

\* The calls that flush: mpegts_write_packet(s, NULL) and mpegts_write_end.
Flushes == {n \in 1..Len(hist) : hist[n].op \in {"flush", "trailer"}}

\* The PESs of stream i that start among the packets call n has written.
PesStartsOfCall(n, i) ==
    {j \in (hist[n].from + 1)..hist[n].to :
        sink[j].k = "pes" /\ sink[j].src = i /\ PktPusi(sink[j]) = 1}

\* C8: mpegts_write_packet(s, NULL) and mpegts_write_end each emit exactly
\* one PES for every stream whose buffer is not empty (none for the others)
\* and leave every payload_size at 0; a flush right after a flush emits no
\* bytes.
C8_Flush ==
    Running =>
      \A n \in Flushes :
        /\ \A i \in Streams :
             Cardinality(PesStartsOfCall(n, i)) =
                 IF i \in hist[n].buffered THEN 1 ELSE 0
        /\ hist[n].left = {}
        /\ n = Len(hist) => \A i \in Streams : st[i].payload_size = 0
        /\ hist[n].buffered = {} => hist[n].to = hist[n].from
        /\ (n - 1) \in Flushes => hist[n].to = hist[n].from

\* A flush has written the buffers of two streams and the flush after it has
\* come and gone.
C8_FlushedTwice ==
    /\ Running
    /\ \E n \in Flushes :
         /\ Cardinality(hist[n].buffered) >= 2
         /\ (n + 1) \in Flushes

\* The calls of mpegts_write_packet, with a packet or with NULL, that are
\* made while resend_headers (or the deprecated option) is set.
ResendCalls ==
    {n \in 1..Len(hist) : hist[n].op \in {"write", "flush"} /\ hist[n].reemit}

\* The first packets of the PESs written since call n began.
PesStartsSince(n) ==
    {j \in Out : j > hist[n].from /\ sink[j].k = "pes" /\ PktPusi(sink[j]) = 1}

\* Between packets a and b every table is sent: SDT, NIT, TOT, EIT, PAT and
\* the PMT of every service.
TablesBetween(a, b) ==
    /\ \A tid \in {SDT_TID, NIT_TID, TOT_TID, EIT_TID, PAT_TID} :
         \E x \in StartsOf(tid) : a < x /\ x < b
    /\ \A k \in Services :
         \E x \in StartsOf(PMT_TID) :
            /\ a < x /\ x < b
            /\ PktPid(sink[x]) = sv[k].pmt.pid
            /\ sink[x].tbl.id = sv[k].sid

ResendHonoured(n) ==
    /\ ~hist[n].reemit_after
    /\ PesStartsSince(n) # {} =>
         TablesBetween(hist[n].from, FirstOf(PesStartsSince(n)))

\* C9: when resend_headers (or the deprecated option) is set as
\* mpegts_write_packet is called, the first TS packet of the next PES is
\* preceded, after the flag was seen, by an SDT, NIT, TOT, EIT, PAT and one
\* PMT per service, and the call clears the flag.
C9_ResendHeaders == Running => \A n \in ResendCalls : ResendHonoured(n)

\* C9 for the calls that carry a packet, where every PMT fits its section:
\* the tables are sent again as the claim says whenever the flag is seen
\* by mpegts_write_packet_internal and no PMT is dropped.
C9_ResendHeadersOfPacketsThatFit ==
    Running /\ PmtsFit =>
        \A n \in ResendCalls : hist[n].op = "write" => ResendHonoured(n)

\* The flag was set after tables and a PES had been written, and a PES has
\* been written since.
C9_ResentAfterFirstPes ==
    /\ Running
    /\ \E n \in ResendCalls :
         /\ hist[n].op = "write"
         /\ PesStartsSince(n) # {}
         /\ \E j \in 1..hist[n].from : sink[j].k = "pes"

\* The calls of mpegts_write_pes for the stream of call n that came before
\* it: all of them, and those that have written a PES.
PesCallsBefore(n) == {o \in 1..(n - 1) : pes[o].st = pes[n].st}
PesWrittenBefore(n) == {o \in PesCallsBefore(n) : pes[o].size > 0}
KeyOfLast(S) == S # {} /\ pes[LastOf(S)].key # 0

AtFrames == BitAnd(ts.flags, MPEGTS_FLAG_PAT_PMT_AT_FRAMES) # 0
IsVideo(n) == st[pes[n].st].codec_type = "video"

\* Every cadence poll is forced exactly when it is the first of its PES and
\* `due` holds of that PES; a forced poll writes the PAT.
ForcedPolls(due(_)) ==
    \A x \in 1..Len(polls) :
        /\ polls[x].force <=> (polls[x].first /\ due(polls[x].pes))
        /\ polls[x].force => \E j \in StartsOf(PAT_TID) : sink[j].poll = x

\* The PES is a video PES and PAT/PMT go with every frame, or it is a key
\* frame and the PES written before it for the stream was none.
ForceDue(n) ==
    IsVideo(n) /\ (AtFrames \/ (pes[n].key # 0 /\ ~KeyOfLast(PesWrittenBefore(n))))

\* The same with the call of mpegts_write_pes before it, whether or not it
\* had a payload to write.
ForceDueAfterCall(n) ==
    IsVideo(n) /\ (AtFrames \/ (pes[n].key # 0 /\ ~KeyOfLast(PesCallsBefore(n))))

\* The first packets of the video PESs.
VideoPesStarts ==
    {j \in Out : sink[j].k = "pes" /\ PktPusi(sink[j]) = 1 /\ IsVideo(sink[j].pes)}

\* Between the packets of two consecutive video PESs lie a PAT and the PMT
\* of every service.
PatPmtBetweenVideoPes ==
    \A a, b \in VideoPesStarts :
        (a < b /\ \A c \in VideoPesStarts : ~(a < c /\ c < b)) =>
            /\ \E x \in StartsOf(PAT_TID) :
                  LastOf(PesPkts(sink[a].pes)) < x /\ x < b
            /\ \A k \in Services :
                  \E y \in StartsOf(PMT_TID) :
                     /\ LastOf(PesPkts(sink[a].pes)) < y /\ y < b
                     /\ sink[y].tbl.id = sv[k].sid

\* C10: the first cadence poll of a PES forces PAT and PMTs iff the stream
\* is video and either pat_pmt_at_frames is set or the PES is a key frame
\* while the PES written before it for that stream was not; later polls of
\* the PES are never forced.  So with pat_pmt_at_frames PAT and PMT packets
\* lie between the TS packets of any two consecutive video PESs.
C10_ForcedPat ==
    Running => /\ ForcedPolls(ForceDue)
               /\ AtFrames => PatPmtBetweenVideoPes

\* C10 with prev_payload_key as the code keeps it (the key flag of the last
\* mpegts_write_pes call, written or empty) and where every PMT fits its
\* section.
C10_ForcedPatAfterCallThatFit ==
    Running /\ PmtsFit => /\ ForcedPolls(ForceDueAfterCall)
                          /\ AtFrames => PatPmtBetweenVideoPes

\* A key frame follows a key frame and is not forced, a PES has several
\* polls, and with pat_pmt_at_frames two video PESs are out.
C10_KeyAfterKey ==
    /\ Running
    /\ \/ \E x \in 1..Len(polls) :
            /\ polls[x].first /\ ~polls[x].force
            /\ IsVideo(polls[x].pes) /\ pes[polls[x].pes].key # 0
       \/ AtFrames /\ Cardinality(VideoPesStarts) >= 2

(***************************************************************************)
(* C11: spacing of the PCR values.                                         *)
(***************************************************************************)
\* Successive PCR-carrying packets on the PCR PID of service k.
PcrSuccessive(k) ==
    {p \in PcrPkts(k) \X PcrPkts(k) :
        /\ p[1] < p[2]
        /\ \A x \in PcrPkts(k) : ~(p[1] < x /\ x < p[2])}

\* The time one TS packet takes at the mux rate, in 27 MHz ticks (nothing at
\* VBR, where the output has no byte clock).
PacketTicks ==
    IF ts.mux_rate > 1
    THEN av_rescale(TS_PACKET_SIZE, 8 * PCR_TIME_BASE, ts.mux_rate) ELSE 0

PcrSpacing(k) ==
    \A p \in PcrSuccessive(k) :
        sink[p[2]].pcr - sink[p[1]].pcr <= ts.pcr_period * 27000 + PacketTicks

\* C11: on each service's PCR PID two successive PCR values differ by at most
\* pcr_period ms * 27000 ticks plus the time of one TS packet, whatever
\* streams are written in between.
C11_PcrSpacing == Running => \A k \in Services : PcrSpacing(k)

\* C11 at a constant bit rate only.
C11_PcrSpacingAtCbr ==
    Running /\ ts.mux_rate > 1 => \A k \in Services : PcrSpacing(k)

\* At CBR the packets of other PIDs between two successive PCRs are not
\* counted: only packets of the PCR stream advance pcr_packet_count, so that
\* at most pcr_packet_period payload packets of the PCR PID lie from one
\* PCR to the next.
C11_PcrSpacingInOwnPackets ==
    Running /\ ts.mux_rate > 1 =>
        \A k \in Services : \A p \in PcrSuccessive(k) :
            Cardinality({x \in (p[1] + 1)..p[2] :
                            /\ PktPid(sink[x]) = sv[k].pcr_pid
                            /\ sink[x].k = "pes"})
                <= Max(sv[k].pcr_packet_period, 1)

\* At CBR two successive PCRs of a service are out with packets of another
\* stream's PES between them.
C11_OtherStreamBetweenPcrs ==
    /\ Running
    /\ ts.mux_rate > 1
    /\ \E k \in Services : \E p \in PcrSuccessive(k) :
          \E x \in (p[1] + 1)..(p[2] - 1) :
              sink[x].k = "pes" /\ PktPid(sink[x]) # sv[k].pcr_pid

(***************************************************************************)
(* C12: the PCR PID of a service.                                          *)
(***************************************************************************)
StreamsOf(k) == {i \in Streams : st[i].service = k}
VideoOf(k) == {i \in StreamsOf(k) : st[i].codec_type = "video"}

\* The stream whose PID service k should announce as its PCR PID.
PcrStreamOf(k) ==
    IF VideoOf(k) # {} THEN FirstOf(VideoOf(k)) ELSE FirstOf(StreamsOf(k))

PcrPidChosen(k) ==
    /\ sv[k].pcr_pid = st[PcrStreamOf(k)].pid
    /\ sv[k].pcr_pid # NULL_PID

\* C12: after a successful init every service that has a stream has as
\* pcr_pid the PID of its first video stream, or of its first stream when it
\* has no video stream, and never 0x1FFF.
C12_PcrPid ==
    Running => \A k \in Services : StreamsOf(k) # {} => PcrPidChosen(k)

\* C12 for the services that have a video stream, and for the service of
\* the first stream: these get the PID the claim names.
C12_PcrPidOfVideoOrFirstService ==
    Running =>
        \A k \in Services :
            VideoOf(k) # {} \/ 1 \in StreamsOf(k) => PcrPidChosen(k)

\* Init succeeded with an audio-only service and with a service whose first
\* video stream is not its first stream.
C12_AudioOnlyServiceReady ==
    /\ phase = "ready"
    /\ \E k \in Services : StreamsOf(k) # {} /\ VideoOf(k) = {}
                           /\ PcrPidChosen(k)

(***************************************************************************)
(* C13: service_type in the SDT.                                           *)
(***************************************************************************)
\* The service entries of the SDT sections in the output.
SdtEntries ==
    {<<i, n>> \in StartsOf(SDT_TID) \X Services :
        n <= Len(sink[i].tbl.body.entries)}

\* service_type as the claim derives it from bit 3 of the sid.
ServiceTypeOfSid(sid) ==
    IF BitAnd(sid, 8) # 0 THEN MPEGTS_SERVICE_TYPE_ONE_SEG
    ELSE MPEGTS_SERVICE_TYPE_DIGITAL_TV

SdtServiceType(e) ==
    LET d == sink[e[1]].tbl.body.entries[e[2]]
    IN d.service_type = ServiceTypeOfSid(d.sid)

\* C13: every SDT written lists each service with service_type 0xC0 when bit
\* 3 of its sid is set and 0x01 otherwise; the default service 1 is 0x01.
C13_SdtServiceType == Running => \A e \in SdtEntries : SdtServiceType(e)

\* C13 for the services whose sid has bit 0 or bit 1 set exactly when bit 3
\* is set: these are advertised as the claim says.
C13_SdtServiceTypeOfAgreeingSids ==
    Running =>
        \A e \in SdtEntries :
            LET sid == sink[e[1]].tbl.body.entries[e[2]].sid
            IN (BitAnd(sid, 3) # 0) = (BitAnd(sid, 8) # 0) => SdtServiceType(e)

\* An SDT of the two services of profile 1 (sids 0x20 and 0x39) is out, and
\* every SDT lists all services in order.
C13_ProfileSdtWritten ==
    /\ Running
    /\ \A i \in StartsOf(SDT_TID) :
          /\ Len(sink[i].tbl.body.entries) = Len(sv)
          /\ \A n \in Services : sink[i].tbl.body.entries[n].sid = sv[n].sid
    /\ \E i \in StartsOf(SDT_TID) :
          /\ Len(sv) = 2
          /\ sink[i].tbl.body.entries[1].service_type = MPEGTS_SERVICE_TYPE_DIGITAL_TV
          /\ sink[i].tbl.body.entries[2].service_type = MPEGTS_SERVICE_TYPE_ONE_SEG

(***************************************************************************)
(* C14: a PMT that cannot hold all streams of its service.                 *)
(***************************************************************************)
\* The n-th stream of service k.
NthStreamOf(k, n) ==
    CHOOSE i \in StreamsOf(k) : Cardinality({x \in StreamsOf(k) : x <= i}) = n

\* PMT section j lists the first streams of service k, in order, with their
\* PIDs.
PmtListsFirstStreams(j, k) ==
    LET es == sink[j].tbl.body.es
    IN /\ Len(es) <= Cardinality(StreamsOf(k))
       /\ \A n \in 1..Len(es) :
            /\ es[n].stream = NthStreamOf(k, n)
            /\ es[n].pid = st[NthStreamOf(k, n)].pid

\* Every PAT is followed, in its poll, by a PMT section of each service.
PmtNeverOmitted ==
    \A i \in StartsOf(PAT_TID) : \A k \in Services :
        \E j \in PmtsAfter(i) :
            /\ sink[j].tbl.id = sv[k].sid
            /\ PktPid(sink[j]) = sv[k].pmt.pid
            /\ PmtListsFirstStreams(j, k)

\* Every mpegts_write_pes call with payload has written its PES, whether or
\* not a PMT lists the stream.
PesAlwaysMuxed ==
    \A n \in 1..Len(pes) :
        pes[n].size > 0 =>
            \E i \in PesPkts(n) : PktPusi(sink[i]) = 1
                                  /\ PktPid(sink[i]) = st[pes[n].st].pid

\* C14: a PMT section is written for every service whenever the PAT is,
\* listing the streams that fit, also when not all streams of the service
\* fit; and the PES of every stream is muxed.
C14_PmtOverflow == Running => PmtNeverOmitted /\ PesAlwaysMuxed

\* C14 where the body the stream loop builds is within what
\* mpegts_write_section1 accepts.
C14_PmtOverflowThatFits == Running /\ PmtsFit => PmtNeverOmitted /\ PesAlwaysMuxed

\* The PES of a stream is muxed although no PMT lists it (the stream loop
\* stopped before it), and the PMT of its service has been written.
C14_DroppedStreamMuxed ==
    /\ Running
    /\ PmtsFit
    /\ \E n \in 1..Len(pes) :
          /\ PesPkts(n) # {}
          /\ StartsOf(PMT_TID) # {}
          /\ \A j \in StartsOf(PMT_TID) :
                \A e \in 1..Len(sink[j].tbl.body.es) :
                    sink[j].tbl.body.es[e].stream # pes[n].st

(***************************************************************************)
(* C15: AAC without ADTS header and without extradata.                     *)
(***************************************************************************)
\* The step is a mpegts_write_packet call for an AAC stream that has no
\* extradata (no ADTS/LATM muxer), with a packet that lacks the sync word.
RawAacWrite ==
    /\ phase = "ready"
    /\ Len(hist') = Len(hist) + 1
    /\ hist'[Len(hist')].op = "write"
    /\ LET pkt == hist'[Len(hist')].pkt
       IN /\ st[pkt.stream_index].codec_id = "aac"
          /\ st[pkt.stream_index].extradata_size = 0
          /\ ~st[pkt.stream_index].amux
          /\ ~pkt.adts

\* C15: write_packet for an AAC stream without extradata returns an error
\* for a packet that lacks the ADTS sync word, and writes and buffers
\* nothing.
C15_RawAacRefused ==
    [][RawAacWrite =>
          /\ hist'[Len(hist')].ret < 0
          /\ sink' = sink
          /\ Buffers(st') = Buffers(st)]_vars

\* Such a packet has been accepted: the call returned 0 and the packet went
\* to the payload buffer or out as a PES, as it came.
C15_RawAacMuxed ==
    /\ Running
    /\ \E n \in 1..Len(hist) :
          /\ hist[n].op = "write"
          /\ hist[n].ret = 0
          /\ st[hist[n].pkt.stream_index].codec_id = "aac"
          /\ st[hist[n].pkt.stream_index].extradata_size = 0
          /\ ~hist[n].pkt.adts
          /\ hist[n].adapted.size = hist[n].pkt.size
          /\ \/ hist[n].pkt.stream_index \in hist[n].left
             \/ \E i \in (hist[n].from + 1)..hist[n].to : sink[i].k = "pes"

(***************************************************************************)
(* C16: the tp_extra_header of M2TS mode.                                  *)
(***************************************************************************)
\* The write offset of the i-th packet in M2TS mode: every packet before it
\* took 4 + 188 bytes.
M2tsOffset(i) == (i - 1) * (4 + TS_PACKET_SIZE)

\* The PCR projected at a write offset.
PcrAtOffset(off) ==
    av_rescale(off + 11, 8 * PCR_TIME_BASE, ts.mux_rate) + ts.first_pcr

TwoPow30 == 1024 * 1024 * 1024

M2tsHeader(i) == sink[i].m2ts = PcrAtOffset(M2tsOffset(i)) % TwoPow30

\* C16: in M2TS mode every packet written, of whatever kind, is preceded by
\* a tp_extra_header whose value is the PCR at the packet's write offset
\* modulo 2^30.
C16_M2tsHeader ==
    Running /\ ts.m2ts_mode # 0 => \A i \in Out : M2tsHeader(i)

\* C16 for the packets written while the PCR is below 2^30 - 1.
C16_M2tsHeaderBelowWrap ==
    Running /\ ts.m2ts_mode # 0 =>
        \A i \in Out :
            /\ sink[i].m2ts >= 0
            /\ PcrAtOffset(M2tsOffset(i)) < TwoPow30 - 1 => M2tsHeader(i)

\* In M2TS mode a section, a PES, a PCR-only and a null packet are out, and
\* the PCR has passed 2^30.
C16_M2tsAllKindsWritten ==
    /\ Running
    /\ ts.m2ts_mode # 0
    /\ \A kind \in {"sec", "pes", "pcr", "null"} :
          \E i \in Out : sink[i].k = kind
    /\ \E i \in Out : PcrAtOffset(M2tsOffset(i)) >= TwoPow30
    /\ pos = Len(sink) * (4 + TS_PACKET_SIZE)

(***************************************************************************)
(* C17: the pending start trim of an Opus stream.                          *)
(***************************************************************************)
\* The step is a successful mpegts_write_packet call for Opus stream i that
\* has a start trim pending, with a packet that gets a control header.
OpusHeaderWrite(i) ==
    /\ phase = "ready"
    /\ i \in Streams
    /\ Len(hist') = Len(hist) + 1
    /\ hist'[Len(hist')].op = "write"
    /\ hist'[Len(hist')].ret = 0
    /\ hist'[Len(hist')].pkt.stream_index = i
    /\ st[i].codec_id = "opus"
    /\ st[i].opus_pending_trim_start # 0
    /\ hist'[Len(hist')].adapted.ctrl # <<>>

\* The pending start trim of no stream grows or becomes negative.
OpusTrimShrinks ==
    phase = "ready" =>
        \A i \in Streams :
            /\ st'[i].opus_pending_trim_start <= st[i].opus_pending_trim_start
            /\ st'[i].opus_pending_trim_start >= 0

\* C17 as claimed: one packet that needs a control header takes the whole
\* pending start trim: the flag (bit 4 of the second byte) is set, the
\* trim_start written is the pending value and opus_pending_trim_start is 0
\* afterwards; the pending trim never increases nor becomes negative.
C17_OpusTrimCleared ==
    [][/\ \A i \in Streams :
            OpusHeaderWrite(i) =>
                LET c == hist'[Len(hist')].adapted.ctrl
                IN /\ BitAnd(c.b1, 16) # 0
                   /\ c.trim_start = st[i].opus_pending_trim_start
                   /\ st'[i].opus_pending_trim_start = 0
       /\ OpusTrimShrinks]_vars

\* C17 as the code has it: the flag is set, the trim_start written is the
\* smaller of the pending value and the samples of the packet, and the
\* pending value decreases by it, to 0 when the packet has at least as many
\* samples as were pending; it never increases nor becomes negative.
C17_OpusTrimTaken ==
    [][/\ \A i \in Streams :
            OpusHeaderWrite(i) =>
                LET c == hist'[Len(hist')].adapted.ctrl
                    pending == st[i].opus_pending_trim_start
                    samples == opus_get_packet_samples(hist'[Len(hist')].pkt)
                IN /\ BitAnd(c.b1, 16) # 0
                   /\ c.trim_start = Min(pending, samples)
                   /\ st'[i].opus_pending_trim_start = pending - c.trim_start
                   /\ samples >= pending => st'[i].opus_pending_trim_start = 0
       /\ OpusTrimShrinks]_vars

\* An Opus packet of 120 samples has been processed while 312 samples were
\* pending (192 are left), and then one that took the rest.
C17_TrimOverSeveralPackets ==
    /\ Running
    /\ Len(hist) >= 2
    /\ \E n \in 1..(Len(hist) - 1) :
          /\ hist[n].ret = 0 /\ hist[n].adapted.ctrl # <<>>
          /\ hist[n].adapted.ctrl.trim_start = 120
          /\ hist[n].adapted.opus_pending_trim_start = 192
          /\ hist[n + 1].ret = 0 /\ hist[n + 1].adapted.ctrl # <<>>
          /\ hist[n + 1].adapted.ctrl.trim_start = 192
    /\ \A i \in Streams : st[i].opus_pending_trim_start = 0

(***************************************************************************)
(* C18: the cadence poll.                                                  *)
(***************************************************************************)
Polls == 1..Len(polls)

\* The five tables of a poll: the field of the poll log, the table_id, the
\* packet period and the time limit in seconds.
PolledTables ==
    {[n |-> "sdt", tid |-> SDT_TID, packet_period |-> ts.sdt_packet_period,
      period |-> ts.sdt_period],
     [n |-> "nit", tid |-> NIT_TID, packet_period |-> ts.nit_packet_period,
      period |-> ts.nit_period],
     [n |-> "tot", tid |-> TOT_TID, packet_period |-> ts.tot_packet_period,
      period |-> ts.tot_period],
     [n |-> "eit", tid |-> EIT_TID, packet_period |-> ts.eit_packet_period,
      period |-> ts.eit_period],
     [n |-> "pat", tid |-> PAT_TID, packet_period |-> ts.pat_packet_period,
      period |-> ts.pat_period]}

\* Table T is in the output of poll p.
EmittedIn(p, T) == \E i \in StartsOf(T.tid) : sink[i].poll = p

\* The conditions (a) to (d) on the state the poll found.
DueByCount(p, T) == polls[p].before[T.n].count + 1 = T.packet_period
DueByFirstDts(p, T) ==
    polls[p].dts # AV_NOPTS_VALUE /\ polls[p].before[T.n].last = AV_NOPTS_VALUE
DueByTime(p, T) ==
    /\ polls[p].dts # AV_NOPTS_VALUE
    /\ polls[p].before[T.n].last # AV_NOPTS_VALUE
    /\ T.period <= INT_MAX \div 90000
    /\ polls[p].dts - polls[p].before[T.n].last >= T.period * 90000
DueByForce(p, T) == T.n = "pat" /\ polls[p].force

PollOutcome(p, T) ==
    LET b == polls[p].before[T.n]
        a == polls[p].after[T.n]
    IN /\ EmittedIn(p, T) <=>
            \/ DueByCount(p, T) \/ DueByFirstDts(p, T)
            \/ DueByTime(p, T) \/ DueByForce(p, T)
       /\ EmittedIn(p, T) => a.count = 0 /\ a.last = Max(b.last, polls[p].dts)
       /\ ~EmittedIn(p, T) => a.count = b.count + 1 /\ a.last = b.last

\* The packets a poll was made for: a PES packet or a filler.
PolledFor(p) == {i \in Out : sink[i].poll = p /\ sink[i].k # "sec"}

\* C18: there is one poll before each TS packet of a PES and before each
\* filler packet; in it each of SDT, NIT, TOT, EIT and PAT is emitted
\* exactly when (a) its incremented packet count equals its packet period,
\* (b) a DTS is present and last_ts is unset, (c) a DTS is present and
\* dts - last_ts >= period * 90000, or (d) it is the PAT and the poll is
\* forced; an emitted table has count 0 and last_ts = max(last_ts, dts),
\* another has its count incremented and last_ts unchanged.
C18_CadencePoll ==
    Running =>
        /\ \A p \in Polls :
             /\ Cardinality(PolledFor(p)) = 1
             /\ \A T \in PolledTables : PollOutcome(p, T)
        /\ \A i \in Out : sink[i].k # "sec" => sink[i].poll \in Polls

\* Polls of every kind have been made: a table emitted by its count only,
\* by the first DTS, by the time limit only, a PAT by force only, a table
\* not emitted, and a poll after a filler packet.
C18_EveryConditionMet ==
    /\ Running
    /\ \E p \in Polls : \E T \in PolledTables :
          DueByCount(p, T) /\ ~DueByFirstDts(p, T) /\ ~DueByTime(p, T)
          /\ ~DueByForce(p, T) /\ EmittedIn(p, T)
    /\ \E p \in Polls : \E T \in PolledTables :
          DueByTime(p, T) /\ ~DueByCount(p, T) /\ EmittedIn(p, T)
    /\ \E p \in Polls : \E T \in PolledTables :
          DueByForce(p, T) /\ ~DueByCount(p, T) /\ ~DueByFirstDts(p, T)
          /\ ~DueByTime(p, T) /\ EmittedIn(p, T)
    /\ \E p \in Polls : \E T \in PolledTables : ~EmittedIn(p, T)

\* A table is emitted because the poll brings the first DTS, its count not
\* being due: the packets before had no DTS.
C18_FirstDtsAfterStart ==
    /\ Running
    /\ \E p \in Polls : \E T \in PolledTables :
          DueByFirstDts(p, T) /\ ~DueByCount(p, T) /\ ~DueByForce(p, T)
          /\ EmittedIn(p, T)

\* A poll was made for a null packet and for a PCR-only packet, and the
\* loop polled again for the PES packet after them.
C18_PollAfterFiller ==
    /\ Running
    /\ \E p, q, r \in Polls :
          /\ p < r /\ q < r
          /\ \E i \in PolledFor(p) : sink[i].k = "null"
          /\ \E i \in PolledFor(q) : sink[i].k = "pcr"
          /\ \E i \in PolledFor(r) : sink[i].k = "pes"
          /\ polls[p].pes = polls[r].pes /\ polls[q].pes = polls[r].pes

(***************************************************************************)
(* C19: the order of the tables of one poll.                               *)
(***************************************************************************)
\* The section packets written by poll p.
SectionsOf(p) == {i \in Out : sink[i].poll = p /\ sink[i].k = "sec"}

\* The place of a section packet in the order SDT, NIT, TOT, EIT, PAT, PMT
\* of service 1, PMT of service 2, ...
TablePlace(i) ==
    CASE sink[i].src.t = "sdt" -> 1
      [] sink[i].src.t = "nit" -> 2
      [] sink[i].src.t = "tot" -> 3
      [] sink[i].src.t = "eit" -> 4
      [] sink[i].src.t = "pat" -> 5
      [] sink[i].src.t = "pmt" -> 5 + sink[i].src.i

\* The tables of poll p are in order, each at most once, and ahead of the
\* packet the poll was made for.
PollInOrder(p) ==
    /\ \A i, j \in SectionsOf(p) :
          i < j => /\ TablePlace(i) <= TablePlace(j)
                   /\ sink[j].tbl # <<>> => TablePlace(i) < TablePlace(j)
    /\ \A i \in SectionsOf(p) :
          polls[p].at < i /\ \A x \in PolledFor(p) : i < x

\* With the PAT goes one PMT of each service.
PollPmtPerService(p) ==
    (\E i \in SectionsOf(p) : TablePlace(i) >= 5) =>
        \A place \in 5..(5 + Len(sv)) :
            \E i \in SectionsOf(p) : sink[i].tbl # <<>> /\ TablePlace(i) = place

\* C19: the tables written by one poll come in the order SDT, NIT, TOT, EIT,
\* PAT, then one PMT per service in service order, all of them ahead of the
\* PES packet the poll was made for.
C19_TableOrder ==
    Running => \A p \in Polls : PollInOrder(p) /\ PollPmtPerService(p)

\* C19 where every PMT fits its section.
C19_TableOrderThatFits ==
    Running /\ PmtsFit => \A p \in Polls : PollInOrder(p) /\ PollPmtPerService(p)

\* A poll has written all five tables and the PMTs of several services
\* before a PES packet, and a later poll a part of them.
C19_FullAndPartialPoll ==
    /\ Running
    /\ Len(sv) >= 2
    /\ \E p, q \in Polls :
          /\ p < q
          /\ {TablePlace(i) : i \in SectionsOf(p)} = 1..(5 + Len(sv))
          /\ {TablePlace(i) : i \in SectionsOf(q)} \notin {{}, 1..(5 + Len(sv))}
          /\ \E x \in PolledFor(p) : sink[x].k = "pes"

(***************************************************************************)
(* C20: fillers, tables and the PES packet.                                *)
(***************************************************************************)
Fillers == {i \in Out : sink[i].k \in {"null", "pcr"}}

\* What is written on behalf of PES packet x: the packets of its
\* mpegts_write_pes call since the PES packet before it, x included.
WrittenFor(x) ==
    {i \in Out : /\ i <= x
                 /\ sink[i].pes = sink[x].pes
                 /\ \A y \in i..(x - 1) : sink[y].k # "pes"}

\* C20 as claimed: of the packets written on behalf of a PES packet the
\* fillers come first and the tables after them, so that no filler lies
\* between a table and the PES packet.
C20_FillersThenTables ==
    Running =>
        \A x \in Out :
            sink[x].k = "pes" =>
                \A i, j \in WrittenFor(x) :
                    i \in Fillers /\ sink[j].k = "sec" => i < j

\* The output of poll p: its tables, then the one packet it was made for.
PollThenPacket(p) ==
    \E x \in Out :
        /\ PolledFor(p) = {x}
        /\ SectionsOf(p) \cup {x} = (polls[p].at + 1)..x
        /\ polls[p].force => polls[p].first
        /\ sink[x].k # "pes" =>
              /\ ts.mux_rate > 1
              /\ p + 1 \in Polls
              /\ polls[p + 1].pes = polls[p].pes
              /\ polls[p + 1].at = x
              /\ ~polls[p + 1].force

\* C20 as the code has it: every packet the loop writes, filler or PES, is
\* preceded by a poll of its own and directly follows the tables of that
\* poll; after a filler the loop polls again for the same PES.  At VBR
\* there are no fillers and the tables rebuilt for a PES packet lie directly
\* before it; at CBR the tables of an earlier poll, the forced PAT and PMTs
\* of the first poll among them, are followed by a filler each.
C20_PollThenPacket ==
    Running =>
        /\ \A p \in Polls : PollThenPacket(p)
        /\ \A i \in Out : sink[i].poll \in Polls
        /\ ts.mux_rate <= 1 => Fillers = {}

\* At CBR a forced PAT with its PMT was written, then a filler, then more
\* tables, and then the PES packet the PAT was forced for.
C20_FillerAfterForcedPat ==
    /\ Running
    /\ ts.mux_rate > 1
    /\ \E p \in Polls : \E x \in Out :
          /\ polls[p].force
          /\ sink[x].k = "pes" /\ PktPusi(sink[x]) = 1
          /\ sink[x].pes = polls[p].pes
          /\ \E i \in SectionsOf(p) : sink[i].src.t = "pmt"
          /\ \E f \in Fillers : \E j \in SectionStarts :
                /\ PolledFor(p) = {f}
                /\ f < j /\ j < x

(***************************************************************************)
(* C21: the cadence of the tables at VBR.                                  *)
(***************************************************************************)
\* The muxer runs at VBR with no table period set, the caller never asked
\* for the tables again, and it handed a dts, never decreasing, with every
\* packet.
VbrDefault ==
    /\ Running
    /\ ts.mux_rate = 1
    /\ ts.pat_period = INT_MAX /\ ts.sdt_period = INT_MAX
    /\ ResendCalls = {}
    /\ \A p \in Polls : polls[p].dts # AV_NOPTS_VALUE
    /\ \A p, q \in Polls : p < q => polls[p].dts <= polls[q].dts

\* The fallback periods in polls.
VbrPeriod(T) == IF T.n = "pat" THEN 40 ELSE 200

\* Table T comes again N polls after poll p that emitted it, and on no poll
\* in between, unless a forced PAT restarts the count.
EveryNPolls(T, p) ==
    \A q \in Polls :
        /\ p < q /\ q <= p + VbrPeriod(T)
        /\ \A r \in (p + 1)..q : ~polls[r].force
        => (EmittedIn(q, T) <=> q = p + VbrPeriod(T))

\* C21: at VBR with the default configuration each of PAT, SDT, NIT, TOT
\* and EIT is emitted again exactly every N polls after an emission (40 for
\* the PAT, 200 for the others) and on no poll in between.
C21_VbrCadence ==
    VbrDefault =>
        \A T \in PolledTables : \A p \in Polls :
            EmittedIn(p, T) => EveryNPolls(T, p)

\* The same of the two tables whose time limit is an option (pat_period,
\* sdt_period).
C21_VbrCadenceOfPatAndSdt ==
    VbrDefault =>
        \A T \in PolledTables : \A p \in Polls :
            T.n \in {"pat", "sdt"} /\ EmittedIn(p, T) => EveryNPolls(T, p)

\* A PAT was emitted by count, 40 polls after the one before, and the NIT
\* with each of the polls between.
C21_PatAfterFortyPolls ==
    /\ VbrDefault
    /\ \E T, N \in PolledTables : \E p \in Polls :
          /\ T.n = "pat" /\ N.n = "nit"
          /\ p + 40 \in Polls
          /\ EmittedIn(p, T) /\ EmittedIn(p + 40, T)
          /\ \A r \in (p + 1)..(p + 40) : ~polls[r].force /\ EmittedIn(r, N)
          /\ \A r \in (p + 1)..(p + 39) : ~EmittedIn(r, T)

(***************************************************************************)
(* C22: the periods in packets at CBR.                                     *)
(***************************************************************************)
\* floor(mux_rate * ms / (188 * 8 * 1000))
PeriodInPackets(ms) == Int64MulDiv(ts.mux_rate, ms, TS_PACKET_SIZE * 8 * 1000)

\* The services that carry a PCR.
PcrServices == {k \in Services : sv[k].pcr_pid # NULL_PID}

\* C22: at CBR mpegts_init sets the PCR period to
\* floor(mux_rate * pcr_period / 1504000) packets and the period of each
\* table to floor(mux_rate * ms / 1504000) packets, with ms = 100 for the
\* PAT, 500 for the SDT, 50 for the NIT, 100 for the TOT and 500 for the
\* EIT, whatever the muxrate.
C22_CbrPeriods ==
    Running /\ ts.mux_rate > 1 =>
        /\ \A k \in PcrServices :
              sv[k].pcr_packet_period = PeriodInPackets(ts.pcr_period)
        /\ ts.pat_packet_period = PeriodInPackets(100)
        /\ ts.sdt_packet_period = PeriodInPackets(500)
        /\ ts.nit_packet_period = PeriodInPackets(50)
        /\ ts.tot_packet_period = PeriodInPackets(100)
        /\ ts.eit_packet_period = PeriodInPackets(500)

\* The same of PAT and SDT when their time limits are not set, and of the
\* PCR period of a single service with PCR_RETRANS_TIME in place of
\* pcr_period, when the int product does not overflow.
C22_CbrPeriodsOfPatSdtAndPcr ==
    Running /\ ts.mux_rate > 1 =>
        /\ ts.pat_period = INT_MAX => ts.pat_packet_period = PeriodInPackets(100)
        /\ ts.sdt_period = INT_MAX => ts.sdt_packet_period = PeriodInPackets(500)
        /\ ts.nit_packet_period = INT_MAX
        /\ ts.tot_packet_period = INT_MAX
        /\ ts.eit_packet_period = INT_MAX
        /\ ts.mux_rate <= INT_MAX \div PCR_RETRANS_TIME /\ Len(sv) = 1
           => sv[1].pcr_packet_period = PeriodInPackets(PCR_RETRANS_TIME)

\* mpegts_init has run with a muxrate beyond INT_MAX / 20 and the product
\* wrapped: the PCR period is negative.
C22_PcrPeriodWrapped ==
    /\ Running
    /\ ts.mux_rate > INT_MAX \div PCR_RETRANS_TIME
    /\ \E k \in PcrServices : sv[k].pcr_packet_period < 0

\* mpegts_init has run at CBR with pcr_period = 40.
C22_PcrPeriodSet ==
    /\ Running
    /\ ts.mux_rate > 1 /\ ts.pcr_period = 40
    /\ \E k \in PcrServices : sv[k].pcr_packet_period = 2

(***************************************************************************)
(* C23: the payload buffer.                                                *)
(***************************************************************************)
\* The calls that wrote their packet as a PES of its own: the stream is not
\* audio or the packet is larger than pes_payload_size.
DirectWrites ==
    {n \in 1..Len(hist) :
        /\ hist[n].op = "write" /\ hist[n].ret >= 0
        /\ \/ st[hist[n].pkt.stream_index].codec_type # "audio"
           \/ hist[n].adapted.size > ts.pes_payload_size}

\* C23: the payload buffered for a stream is never negative and never more
\* than pes_payload_size, the size of the buffer; and a call that writes
\* its packet as a PES of its own finds the buffer of the stream empty
\* (mpegts_write_pes leaves payload_size alone, so the call returns with
\* the payload_size that av_assert0 saw).
C23_PayloadWithinBuffer ==
    Running =>
        /\ \A i \in Streams :
              0 <= st[i].payload_size /\ st[i].payload_size <= ts.pes_payload_size
        /\ \A n \in DirectWrites : hist[n].pkt.stream_index \notin hist[n].left

\* An audio packet was buffered, the next did not fit and was buffered after
\* the first had been written, and an audio packet larger than the buffer
\* arrived while data was buffered and was written directly.
C23_BufferFilledAndBypassed ==
    /\ Running
    /\ \E n \in DirectWrites :
          /\ st[hist[n].pkt.stream_index].codec_type = "audio"
          /\ hist[n].pkt.stream_index \in hist[n].buffered
    /\ \E n \in 1..Len(hist) : \E i \in Streams :
          /\ hist[n].op = "write" /\ hist[n].ret >= 0
          /\ hist[n].pkt.stream_index = i
          /\ i \in hist[n].buffered /\ i \in hist[n].left
          /\ hist[n].to > hist[n].from

(***************************************************************************)
(* C24: what was written to a stream is what its PESs carry.               *)
(***************************************************************************)
\* Every write_packet call succeeded and the last call was a flush.
Flushed ==
    /\ Running
    /\ hist # <<>>
    /\ hist[Len(hist)].op \in {"flush", "trailer"}
    /\ \A n \in 1..Len(hist) : hist[n].op = "write" => hist[n].ret >= 0

\* The data, as the codec branch left it, of the packets written to stream
\* i by the first n calls, in the order of the calls.
RECURSIVE WrittenTo(_, _)
WrittenTo(i, n) ==
    IF n = 0 THEN <<>>
    ELSE WrittenTo(i, n - 1)
         \o (IF hist[n].op = "write" /\ hist[n].pkt.stream_index = i
             THEN Bytes(hist[n].pkt, hist[n].adapted.size) ELSE <<>>)

\* The payloads of the first n PESs that are of stream i, in output order.
RECURSIVE EmittedOf(_, _)
EmittedOf(i, n) ==
    IF n = 0 THEN <<>>
    ELSE EmittedOf(i, n - 1) \o (IF pes[n].st = i THEN pes[n].data ELSE <<>>)

\* The PESs of stream i that reached the output.
PesOf(i) == {n \in 1..Len(pes) : pes[n].st = i /\ pes[n].size > 0}

\* The bytes PES n has in its TS packets behind the PES header (the nine
\* fixed bytes and PES_header_data_length more).
PesPayloadBytes(n) ==
    LET f == sink[FirstOf(PesPkts(n))]
        l == sink[LastOf(PesPkts(n))]
    IN (f.hdr - 9 - f.tbl.header_len) + l.off + l.len

\* The pts of the first packet whose data PES n carries, as the caller set
\* it.
FirstPts(n) == hist[pes[n].data[1].pkt].pkt.pts

\* pts += delay unless copyts
Shifted(t) ==
    IF ts.copyts < 1 /\ t # AV_NOPTS_VALUE
    THEN t + av_rescale(ts.max_delay, 90000, AV_TIME_BASE) * 2 ELSE t

\* The PES is an asynchronous KLV one.
AsyncKlv(n) ==
    /\ st[pes[n].st].codec_type = "data"
    /\ hist[pes[n].data[1].pkt].pkt.stream_id = 189

\* The packets' data comes out whole and in order, in PES packets on the
\* PID of the stream.
DataCarried(i) ==
    /\ EmittedOf(i, Len(pes)) = WrittenTo(i, Len(hist))
    /\ \A n \in PesOf(i) :
          /\ PesPkts(n) # {}
          /\ \A j \in PesPkts(n) : PktPid(sink[j]) = st[i].pid
          /\ pes[n].size = SeqSum([c \in DOMAIN pes[n].data |-> pes[n].data[c].size])

\* C24 as claimed: after successful writes and a flush the PES payloads on
\* a stream's PID are, concatenated, the data of the packets written to the
\* stream in arrival order, no more and no less, and the PES header has the
\* pts of the first packet in the PES.
C24_PayloadRoundTrip ==
    Flushed =>
        \A i \in Streams :
            /\ DataCarried(i)
            /\ \A n \in PesOf(i) :
                  /\ PesPayloadBytes(n) = pes[n].size
                  /\ sink[FirstOf(PesPkts(n))].tbl.pts = FirstPts(n)

\* C24 as the code has it: the data comes out whole and in order; a DVB
\* subtitle PES has the two bytes 0x20 0x00 in front of it and 0xFF behind;
\* the pts in the PES header is that of the first packet in the PES plus
\* twice max_delay (unless copyts is set), and an asynchronous KLV PES has
\* none.
C24_PayloadCarried ==
    Flushed =>
        \A i \in Streams :
            /\ DataCarried(i)
            /\ \A n \in PesOf(i) :
                  /\ PesPayloadBytes(n) =
                        pes[n].size
                        + (IF st[i].codec_id = "dvb_subtitle" THEN 3 ELSE 0)
                  /\ sink[FirstOf(PesPkts(n))].tbl.pts =
                        IF AsyncKlv(n) THEN AV_NOPTS_VALUE
                        ELSE Shifted(FirstPts(n))

\* With max_delay set, a PES of two packets was written for one stream and
\* a packet of another stream was left for the flush.
C24_BufferedAndFlushed ==
    /\ Flushed
    /\ ts.max_delay > 0 /\ ts.copyts < 1
    /\ \E n \in 1..Len(pes) : Len(pes[n].data) >= 2
    /\ \E n \in 1..Len(pes) :
          PesPkts(n) # {} /\ hist[Len(hist)].from < FirstOf(PesPkts(n))

\* A DVB subtitle and an asynchronous KLV packet were written.
C24_SubtitleAndKlvWritten ==
    /\ Flushed
    /\ \E n \in 1..Len(pes) : pes[n].size > 0 /\ AsyncKlv(n)
    /\ \E n \in 1..Len(pes) :
          pes[n].size > 0 /\ st[pes[n].st].codec_id = "dvb_subtitle"

(***************************************************************************)
(* C25: service ids and the PMT a stream is listed in.                     *)
(***************************************************************************)
SidsDistinct ==
    \A j, k \in Services : j # k => sv[j].sid # sv[k].sid

\* The service stream i is dealt to: services[i % final_nb_services].
ServiceDealt(i) == ((i - 1) % ts.final_nb_services) + 1

\* PMT section j lists stream i with its PID.
ListedIn(i, j) ==
    \E n \in DOMAIN sink[j].tbl.body.es :
        /\ sink[j].tbl.body.es[n].stream = i
        /\ sink[j].tbl.body.es[n].pid = st[i].pid

\* Of the PMTs written after PAT a, one lists stream i: that of the service
\* the stream was dealt to.
ListedOnce(i, a) ==
    \E j \in PmtsAfter(a) :
        /\ ListedIn(i, j)
        /\ sink[j].tbl.id = sv[ServiceDealt(i)].sid
        /\ PktPid(sink[j]) = sv[ServiceDealt(i)].pmt.pid
        /\ \A x \in PmtsAfter(a) : ListedIn(i, x) => x = j

\* C25: the services made by mpegts_init have pairwise distinct service
\* ids, and whenever the PMTs are written every stream is listed, with its
\* PID, in the PMT of exactly one service, the one it was dealt to.
C25_ServiceIds ==
    Running =>
        /\ SidsDistinct
        /\ \A i \in Streams : st[i].service = ServiceDealt(i)
        /\ \A a \in StartsOf(PAT_TID) : \A i \in Streams : ListedOnce(i, a)

\* The stream loop of no PMT stops short of a stream.
PmtsComplete ==
    \A k \in Services :
        mpegts_write_pmt_loop(Bundle, k, 1, 2 + 2 + 6, <<>>).err = 0

\* The same with at most one upstream program and PMTs that hold all their
\* streams.
C25_ServiceIdsOfOneProgram ==
    Running /\ ts.nb_programs <= 1 /\ PmtsFit /\ PmtsComplete =>
        /\ SidsDistinct
        /\ \A i \in Streams : st[i].service = ServiceDealt(i)
        /\ \A a \in StartsOf(PAT_TID) : \A i \in Streams : ListedOnce(i, a)

\* Two upstream programs in profile 1: four services, two ids.
C25_ServicesOfTwoPrograms ==
    /\ Running
    /\ ts.nb_programs = 2 /\ ts.transmission_profile = 1
    /\ Len(sv) = 4 /\ ts.final_nb_services = 2
    /\ sv[1].sid = sv[3].sid /\ sv[2].sid = sv[4].sid
    /\ sv[1].pmt.pid # sv[3].pmt.pid

\* Three services with a stream each have had their PMTs written.
C25_ProfilePmtsWritten ==
    /\ Running
    /\ Len(sv) >= 3 /\ ts.nb_programs = 0
    /\ \A k \in 1..3 : StreamsOf(k) # {}
    /\ StartsOf(PAT_TID) # {}

(***************************************************************************)
(* C26: the PIDs of the tables.                                            *)
(***************************************************************************)
\* The PIDs of PAT, NIT, SDT, EIT and TOT and the null PID.
FixedPids == {PAT_PID, NIT_PID, SDT_PID, EIT_PID, TOT_PID, NULL_PID}

\* C26: after a successful init no stream and no PMT has the PID of the
\* PAT, NIT, SDT, EIT or TOT or the null PID.
C26_FixedPidsFree ==
    Running =>
        /\ \A i \in Streams : st[i].pid \notin FixedPids
        /\ \A k \in Services : sv[k].pmt.pid \notin FixedPids

\* No stream and no PMT has the PID of the PAT or the null PID.
C26_PatAndNullPidFree ==
    Running =>
        /\ \A i \in Streams : st[i].pid \notin {PAT_PID, NULL_PID}
        /\ \A k \in Services : sv[k].pmt.pid \notin {PAT_PID, NULL_PID}

\* Init has accepted the greatest stream id and the greatest PMT PID.
C26_GreatestPidsAccepted ==
    /\ Running
    /\ \E i \in Streams : st[i].pid = NULL_PID - 1
    /\ \E k \in Services : sv[k].pmt.pid = 7936

(***************************************************************************)
(* C27: the one-seg services in SDT, NIT and EIT.                          *)
(***************************************************************************)
\* The services whose sid has 0b11 in bits 4 and 3.
OneSegSids == {sv[k].sid : k \in {x \in Services : BitAnd(sv[x].sid, 24) = 24}}

\* The services a table classifies as one-seg.
SdtOneSeg(i) ==
    LET e == sink[i].tbl.body.entries
    IN {e[n].sid : n \in {x \in DOMAIN e :
                            e[x].service_type = MPEGTS_SERVICE_TYPE_ONE_SEG}}
NitTypeC(i) ==
    LET e == sink[i].tbl.body.transmission
    IN {e[n].sid : n \in {x \in DOMAIN e : e[x].type = 175}}
NitPartialReception(i) == sink[i].tbl.body.partial_reception
EitOneSeg(i) ==
    LET e == sink[i].tbl.body.entries
    IN {e[n].sid : n \in {x \in DOMAIN e : e[x].one_seg}}

OneSegAgreed ==
    /\ \A i \in StartsOf(SDT_TID) : SdtOneSeg(i) = OneSegSids
    /\ \A i \in StartsOf(NIT_TID) :
          NitTypeC(i) = OneSegSids /\ NitPartialReception(i) = OneSegSids
    /\ \A i \in StartsOf(EIT_TID) : EitOneSeg(i) = OneSegSids

\* C27: the service_type 0xC0 of the SDT, the transmission type 0xAF of
\* the NIT, the partial reception descriptors of the NIT and the short
\* descriptor set of the EIT all mark the same services as one-seg: those
\* with 0b11 in bits 4 and 3 of the sid.
C27_OneSegAgreed == Running => OneSegAgreed

\* The same when every sid has bit 0 or bit 1 set exactly when it has 0b11
\* in bits 4 and 3.
C27_OneSegOfAgreeingSids ==
    Running /\ (\A k \in Services :
                   (BitAnd(sv[k].sid, 3) # 0) = (BitAnd(sv[k].sid, 24) = 24))
    => OneSegAgreed

\* SDT, NIT transmission types and EIT always agree with each other, and
\* the partial reception descriptors are those of the one-seg services.
C27_OneSegOfSameTest ==
    Running =>
        /\ \A i \in StartsOf(NIT_TID) :
              /\ NitPartialReception(i) = OneSegSids
              /\ \A j \in StartsOf(SDT_TID) : SdtOneSeg(j) = NitTypeC(i)
              /\ \A j \in StartsOf(EIT_TID) : EitOneSeg(j) = NitTypeC(i)

\* Profile 2: the tables are out; SDT, NIT types and EIT mark the second,
\* third and fourth SD service as one-seg and the one-seg service not.
C27_ProfileTwoTables ==
    /\ Running
    /\ ts.transmission_profile = 2
    /\ \E i \in StartsOf(SDT_TID) : \E j \in StartsOf(NIT_TID) :
       \E e \in StartsOf(EIT_TID) :
          /\ SdtOneSeg(i) = {sv[2].sid, sv[3].sid, sv[4].sid}
          /\ NitTypeC(j) = SdtOneSeg(i) /\ EitOneSeg(e) = SdtOneSeg(i)
          /\ NitPartialReception(j) = {sv[5].sid}

(***************************************************************************)
(* C28: the PCR period of every service.                                   *)
(***************************************************************************)
\* The services whose pcr_pid is the PID of one of their streams.
OwnPcrServices ==
    {k \in Services : \E i \in StreamsOf(k) : st[i].pid = sv[k].pcr_pid}

\* A PES of three TS packets or more on the PCR PID of service k has a
\* packet without PCR.
PcrNotInEveryPacket(k) ==
    \A n \in 1..Len(pes) :
        st[pes[n].st].service = k /\ st[pes[n].st].pid = sv[k].pcr_pid
        /\ Cardinality(PesPkts(n)) >= 3
        => \E i \in PesPkts(n) : sink[i].pcr = -1

\* C28: after a successful init every service whose pcr_pid is the PID of
\* one of its streams has pcr_packet_period >= 1, in every profile, and the
\* PCR is not written into every TS packet of its PCR stream.
C28_PcrPeriodSet ==
    Running =>
        \A k \in OwnPcrServices :
            sv[k].pcr_packet_period >= 1 /\ PcrNotInEveryPacket(k)

\* The same of a muxer with one service, at VBR or at a muxrate from 75200
\* to INT_MAX / 20.
C28_PcrPeriodOfOneService ==
    /\ Running
    /\ Len(sv) = 1
    /\ \/ ts.mux_rate <= 1
       \/ /\ ts.mux_rate >= (TS_PACKET_SIZE * 8 * 1000) \div PCR_RETRANS_TIME
          /\ ts.mux_rate <= INT_MAX \div PCR_RETRANS_TIME
    => \A k \in OwnPcrServices :
          sv[k].pcr_packet_period >= 1 /\ PcrNotInEveryPacket(k)

\* A service of profile 1 has its own video stream as PCR stream and the
\* period 0, and a PES of three packets of that stream is out with a PCR in
\* each.
C28_PcrInEveryPacket ==
    /\ Running
    /\ \E k \in OwnPcrServices :
          /\ sv[k].pcr_packet_period = 0
          /\ \E n \in 1..Len(pes) :
                /\ st[pes[n].st].service = k
                /\ st[pes[n].st].pid = sv[k].pcr_pid
                /\ Cardinality(PesPkts(n)) >= 3
                /\ \A i \in PesPkts(n) : sink[i].pcr # -1

\* A PES of three packets on the PCR stream of a single service is out.
C28_LongPesOnPcrStream ==
    /\ Running
    /\ Len(sv) = 1 /\ OwnPcrServices = {1}
    /\ \E n \in 1..Len(pes) :
          /\ st[pes[n].st].pid = sv[1].pcr_pid
          /\ Cardinality(PesPkts(n)) >= 3

(***************************************************************************)
(* C29: the samples queued for an Opus stream.                             *)
(***************************************************************************)
OpusStreams == {i \in Streams : st[i].codec_id = "opus"}

\* The samples of the packets whose data is in the buffer of stream i.
SamplesHeld(i) ==
    SeqSum([c \in DOMAIN st[i].payload |->
               hist[st[i].payload[c].pkt].adapted.opus_samples])

\* C29: between calls opus_queued_samples of an Opus stream is the number
\* of samples of the packets held in its buffer; it is 0 when the buffer is
\* empty, also after the buffer was written because its payload was older
\* than the delay allows.
C29_QueuedSamples ==
    Running =>
        \A i \in OpusStreams :
            /\ st[i].opus_queued_samples = SamplesHeld(i)
            /\ st[i].payload_size = 0 => st[i].opus_queued_samples = 0

\* opus_queued_samples is never less than the samples held, and a flush
\* call that finds data in the buffer leaves both at 0.
C29_QueuedSamplesNotLess ==
    Running =>
        \A i \in OpusStreams :
            /\ st[i].opus_queued_samples >= SamplesHeld(i)
            /\ hist # <<>> /\ hist[Len(hist)].op \in {"flush", "trailer"}
               /\ i \in hist[Len(hist)].buffered
               => st[i].opus_queued_samples = 0 /\ st[i].payload_size = 0

\* An Opus packet is held whose samples are fewer than the samples queued:
\* the packet before it was written by the loop over all streams.
C29_SamplesOfWrittenPacketQueued ==
    /\ Running
    /\ \E i \in OpusStreams :
          /\ st[i].payload_size > 0
          /\ Len(st[i].payload) = 1
          /\ SamplesHeld(i) > 0
          /\ st[i].opus_queued_samples > SamplesHeld(i)
          /\ \E n \in 1..Len(pes) : pes[n].st = i /\ pes[n].size > 0

\* The buffer of an Opus stream is empty, written on behalf of a packet of
\* another stream, and samples are still queued.
C29_SamplesQueuedForEmptyBuffer ==
    /\ Running
    /\ hist # <<>> /\ hist[Len(hist)].op = "write"
    /\ \E i \in OpusStreams :
          /\ hist[Len(hist)].pkt.stream_index # i
          /\ i \in hist[Len(hist)].buffered
          /\ st[i].payload_size = 0
          /\ st[i].opus_queued_samples > 0

(***************************************************************************)
(* C30: the loop of mpegts_write_pes ends.                                 *)
(***************************************************************************)
\* The write offset of the i-th packet: every packet before it took 188
\* bytes, and 4 more in M2TS mode.
Offset(i) == (i - 1) * (TS_PACKET_SIZE + (IF ts.m2ts_mode # 0 THEN 4 ELSE 0))

\* The test of the loop for a filler, at poll p and with x the next packet
\* to write.
FillerDue(p, x) ==
    /\ ts.mux_rate > 1
    /\ polls[p].dts # AV_NOPTS_VALUE
    /\ polls[p].dts - (PcrAtOffset(Offset(x)) \div 300)
         > av_rescale(ts.max_delay, 90000, AV_TIME_BASE)

\* payload_size as the loop counts it: the end marker of a DVB subtitle is
\* added when the PES header is written.
LoopPayloadSize(n) ==
    pes[n].size + (IF \E x \in PesPkts(n) : /\ PktPusi(sink[x]) = 1
                                            /\ sink[x].tbl.is_dvb_subtitle
                   THEN 1 ELSE 0)

\* Packet x of a PES takes len >= 1 bytes from where the packet before it
\* stopped.
TakesPayload(x) ==
    LET n == sink[x].pes
        before == {y \in PesPkts(n) : y < x}
    IN /\ sink[x].len >= 1
       /\ sink[x].off + sink[x].len <= LoopPayloadSize(n)
       /\ sink[x].off = IF before = {} THEN 0
                        ELSE LET y == CHOOSE y \in before :
                                          \A z \in before : z <= y
                             IN sink[y].off + sink[y].len

\* C30: every mpegts_write_pes call terminates.  Each iteration of the loop
\* (one poll) writes exactly one packet besides the tables.  It is a filler,
\* null or PCR-only, exactly when the mux rate is constant and the PCR at
\* the write offset is more than max_delay before the dts; the PCR at the
\* next write offset is then greater, and the loop goes on with the same
\* PES and dts, so that the fillers are finitely many.  Otherwise it is a
\* packet of the PES that takes at least one byte of the payload, and the
\* packets of a call together take exactly its payload.
C30_WritePesTerminates ==
    Running =>
        /\ \A p \in Polls :
              \E x \in Out :
                  /\ PolledFor(p) = {x}
                  /\ sink[x].pes = polls[p].pes
                  /\ IF FillerDue(p, x)
                     THEN /\ sink[x].k \in {"null", "pcr"}
                          /\ PcrAtOffset(Offset(x + 1)) > PcrAtOffset(Offset(x))
                          /\ p + 1 \in Polls
                          /\ polls[p + 1].pes = polls[p].pes
                          /\ polls[p + 1].dts = polls[p].dts
                     ELSE /\ sink[x].k = "pes"
                          /\ TakesPayload(x)
        /\ \A n \in 1..Len(pes) :
              \E last \in PesPkts(n) \cup {0} :
                  /\ \A y \in PesPkts(n) : y <= last
                  /\ IF last = 0 THEN pes[n].size <= 0
                     ELSE sink[last].off + sink[last].len = LoopPayloadSize(n)

\* At a constant bit rate a PES was written after a PCR-only and a null
\* filler, in two TS packets or more.
C30_FillersThenLongPes ==
    /\ Running
    /\ \E n \in 1..Len(pes) :
          /\ \E x, y \in Fillers :
                /\ sink[x].pes = n /\ sink[y].pes = n
                /\ sink[x].k = "pcr" /\ sink[y].k = "null"
          /\ Cardinality(PesPkts(n)) >= 2

====
